---- MODULE Spec2Model ----
(***************************************************************************)
(* A model of coldbrew: the bytecode interpreter (runtime.rs), the loop    *)
(* profiler (profiler.rs), the trace recorder (trace.rs) and the JIT cache *)
(* (jit.rs).  Every component is a record held in one variable and every   *)
(* method of the source is an operator from the old record (and the        *)
(* method's arguments) to the new record, so that the run loop and the     *)
(* per-component specifications below share one translation of the code.   *)
(*                                                                         *)
(* Conventions.                                                            *)
(*  - Option<Vec<Value>> operands are a sequence; <<>> stands for None     *)
(*    (the program never builds Some(vec![])).                             *)
(*  - A Rust panic (panic!, todo!, unwrap on None, index out of bounds) is *)
(*    reported by the operator in a field `panic`; the run loop then ends  *)
(*    with status "panic".                                                 *)
(*  - Float and Double payloads are integer valued.                        *)
(***************************************************************************)
EXTENDS Integers, Sequences, FiniteSets, TLC

VARIABLES
    program,        \* Runtime.program: the methods of the class being run
    frames,         \* Runtime.frames: the stack of frames
    return_values,  \* Runtime.return_values
    status,         \* where Runtime::run is: "running", "ok", "err", "panic"
    profiler,       \* Runtime.profiler / a Profiler
    recorder,       \* Runtime.recorder / a Recorder
    jit_cache,      \* the JitCache
    call,           \* the last operation invoked, with its arguments and result
    steps           \* number of operations performed (bounds the behaviours)

vars == <<program, frames, return_values, status, profiler, recorder,
          jit_cache, call, steps>>

-----------------------------------------------------------------------------
(* Bounds of the model.                                                    *)

\* Largest argument main passes to the method under test.
MaxArg == 5
\* Largest number of calls in a behaviour of the profiler specification.
MaxCalls == 6
\* Largest number of calls in a behaviour of the recorder specification.
MaxRecorderCalls == 3

-----------------------------------------------------------------------------
(* runtime.rs: values                                                      *)

VInt(n) == [t |-> "Int", v |-> n]
VLong(n) == [t |-> "Long", v |-> n]
VFloat(n) == [t |-> "Float", v |-> n]
VDouble(n) == [t |-> "Double", v |-> n]

MaxI32 == 2147483647
MinI32 == -2147483647 - 1

\* i32::wrapping_add, computed without leaving the 32-bit range.
WrappingAdd(a, b) ==
    IF a > 0 /\ b > 0 /\ a > MaxI32 - b
    THEN (a - MaxI32 - 1) + (b - MaxI32 - 1)
    ELSE IF a < 0 /\ b < 0 /\ a < MinI32 - b
         THEN (a + MaxI32 + 1) + (b + MaxI32 + 1)
         ELSE a + b

\* Rust's `/` and `%` on integers truncate toward zero.
Quot(a, b) ==
    IF a >= 0
    THEN (IF b > 0 THEN a \div b ELSE -(a \div (-b)))
    ELSE (IF b > 0 THEN -((-a) \div b) ELSE (-a) \div (-b))

ValueAdd(lhs, rhs) ==
    IF lhs.t = "Int" THEN VInt(WrappingAdd(lhs.v, rhs.v))
    ELSE [t |-> lhs.t, v |-> lhs.v + rhs.v]

ValueSub(lhs, rhs) == [t |-> lhs.t, v |-> lhs.v - rhs.v]

ValueMul(lhs, rhs) == [t |-> lhs.t, v |-> lhs.v * rhs.v]

ValueDiv(lhs, rhs) == [t |-> lhs.t, v |-> Quot(lhs.v, rhs.v)]

ValueRem(lhs, rhs) == [t |-> lhs.t, v |-> lhs.v - rhs.v * Quot(lhs.v, rhs.v)]

\* Value::cmp / Value::compare: -1, 0 or 1.
ValueCompare(lhs, rhs) ==
    IF lhs.v < rhs.v THEN -1 ELSE IF lhs.v > rhs.v THEN 1 ELSE 0

\* The arithmetic helpers panic on operands of different tags ("Expected
\* value type"); integer division and remainder panic on a zero divisor.
ArithPanics(op, lhs, rhs) ==
    \/ lhs.t # rhs.t
    \/ op \in {"div", "rem"} /\ lhs.t \in {"Int", "Long"} /\ rhs.v = 0

Arith(op, lhs, rhs) ==
    CASE op = "add" -> ValueAdd(lhs, rhs)
      [] op = "sub" -> ValueSub(lhs, rhs)
      [] op = "mul" -> ValueMul(lhs, rhs)
      [] op = "div" -> ValueDiv(lhs, rhs)
      [] op = "rem" -> ValueRem(lhs, rhs)

\* #[derive(PartialOrd)] on Value: variants order as declared, then payloads.
TagRank(t) ==
    CASE t = "Int" -> 0 [] t = "Long" -> 1 [] t = "Float" -> 2 [] t = "Double" -> 3

ValueLt(a, b) ==
    \/ TagRank(a.t) < TagRank(b.t)
    \/ a.t = b.t /\ a.v < b.v

-----------------------------------------------------------------------------
(* runtime.rs: program counters, instructions                              *)

PC(m, i) == [method_index |-> m, instruction_index |-> i]

\* ProgramCounter::new
NewPC == PC(0, 0)

\* ProgramCounter::inc_instruction_index
IncInstructionIndex(pc, offset) ==
    PC(pc.method_index, pc.instruction_index + offset)

Instruction(mnemonic, operands) == [mnemonic |-> mnemonic, operands |-> operands]

-----------------------------------------------------------------------------
(* bytecode.rs: OPCode::from, for the opcodes the runtime gives a meaning  *)
(* to (named as runtime.rs names them); every other byte is a mnemonic     *)
(* that eval does not handle.                                              *)

ConstNames ==
    <<"IconstM1", "Iconst0", "Iconst1", "Iconst2", "Iconst3", "Iconst4",
      "Iconst5", "Lconst0", "Lconst1", "Fconst0", "Fconst1", "Fconst2",
      "Dconst0", "Dconst1", "BiPush", "SiPush", "Ldc", "LdcW", "Ldc2W",
      "ILoad", "LLoad", "FLoad", "DLoad", "ALoad">>

ShortLoadNames ==
    <<"ILoad0", "ILoad1", "ILoad2", "ILoad3", "LLoad0", "LLoad1", "LLoad2",
      "LLoad3", "FLoad0", "FLoad1", "FLoad2", "FLoad3", "DLoad0", "DLoad1",
      "DLoad2", "DLoad3">>

StoreNames ==
    <<"IStore", "LStore", "FStore", "DStore", "AStore", "IStore0", "IStore1",
      "IStore2", "IStore3", "LStore0", "LStore1", "LStore2", "LStore3",
      "FStore0", "FStore1", "FStore2", "FStore3", "DStore0", "DStore1",
      "DStore2", "DStore3">>

ArithNames ==
    <<"IAdd", "LAdd", "FAdd", "DAdd", "ISub", "LSub", "FSub", "DSub", "IMul",
      "LMul", "FMul", "DMul", "IDiv", "LDiv", "FDiv", "DDiv", "IRem", "LRem",
      "FRem", "DRem">>

ConvNames ==
    <<"IInc", "I2L", "I2F", "I2D", "L2I", "L2F", "L2D", "F2I", "F2L", "F2D",
      "D2I", "D2L", "D2F">>

BranchNames ==
    <<"LCmp", "FCmpL", "FCmpG", "DCmpL", "DCmpG", "IfEq", "IfNe", "IfLt",
      "IfGe", "IfGt", "IfLe", "IfICmpEq", "IfICmpNe", "IfICmpLt", "IfICmpGe",
      "IfICmpGt", "IfICmpLe", "IfACmpEq", "IfACmpNe", "Goto">>

ReturnNames ==
    <<"IReturn", "LReturn", "FReturn", "DReturn", "AReturn", "Return",
      "GetStatic", "PutStatic", "GetField", "PutField", "InvokeVirtual",
      "InvokeSpecial", "InvokeStatic">>

OPCodeFrom(b) ==
    CASE b = 0 -> "NOP"
      [] b \in 2..25 -> ConstNames[b - 1]
      [] b \in 26..41 -> ShortLoadNames[b - 25]
      [] b \in 54..74 -> StoreNames[b - 53]
      [] b = 89 -> "Dup"
      [] b \in 96..115 -> ArithNames[b - 95]
      [] b \in 132..144 -> ConvNames[b - 131]
      [] b \in 148..167 -> BranchNames[b - 147]
      [] b \in 172..184 -> ReturnNames[b - 171]
      [] OTHER -> "Unspecified"

\* The conditional branches fetch decodes a 16-bit offset for.
CondBranches ==
    {"IfEq", "IfNe", "IfLt", "IfLe", "IfGt", "IfGe", "IfICmpEq", "IfICmpNe",
     "IfICmpLt", "IfICmpLe", "IfICmpGt", "IfICmpGe"}

-----------------------------------------------------------------------------
(* program.rs: Type::size, Method, Program                                 *)

\* Type::size
\* Type::size with one slot for every primitive type.
TypeSizeOneSlot(t) ==
    IF t \in {"Int", "Float", "Long", "Double"} THEN 1 ELSE 0

TypeSize(t) ==
    IF t \in {"Int", "Float"} THEN 1
    ELSE IF t \in {"Long", "Double"} THEN 2 ELSE 0

Method(arg_types, max_locals, code) ==
    [arg_types |-> arg_types, max_locals |-> max_locals, code |-> code]

\* Program::code
Code(prog, method_index) == prog.methods[method_index].code

\* Constant pool entries (the CPInfo variants the runtime looks at).
ConstantMethodRef(name_and_type_index) ==
    [kind |-> "MethodRef", index |-> name_and_type_index, bytes |-> 0]
ConstantNameAndType(name_index) ==
    [kind |-> "NameAndType", index |-> name_index, bytes |-> 0]
ConstantUtf8(name) == [kind |-> "Utf8", index |-> 0, bytes |-> name]
ConstantInteger(n) == [kind |-> "Integer", index |-> 0, bytes |-> n]

\* Program::find_method: the name index behind a ConstantMethodRef entry and
\* its ConstantNameAndType entry (0 when that one is of another kind); any
\* other entry panics ("Expected ConstantMethodRef"), and so does an index
\* outside the pool.
FindMethodPanics(prog, method_ref) ==
    \/ method_ref \notin DOMAIN prog.constant_pool
    \/ prog.constant_pool[method_ref].kind # "MethodRef"
    \/ prog.constant_pool[method_ref].index \notin DOMAIN prog.constant_pool

FindMethod(prog, method_ref) ==
    LET name_and_type == prog.constant_pool[prog.constant_pool[method_ref].index]
    IN  IF name_and_type.kind = "NameAndType" THEN name_and_type.index ELSE 0

\* Program::entry_point: the index of the method whose name entry is the
\* Utf8 constant "main", 0 when there is none.
EntryPoint(prog) ==
    LET mains == {index \in DOMAIN prog.methods :
                      /\ index \in DOMAIN prog.constant_pool
                      /\ prog.constant_pool[index] = ConstantUtf8("main")}
    IN  IF mains = {} THEN 0 ELSE CHOOSE index \in mains : TRUE

-----------------------------------------------------------------------------
(* runtime.rs: frames                                                      *)

NoLocals == [k \in {} |-> VInt(0)]

Frame(pc, stack, locals) == [pc |-> pc, stack |-> stack, locals |-> locals]

Top(fs) == fs[Len(fs)]

\* Replace the current frame.
SetTop(fs, f) == [fs EXCEPT ![Len(fs)] = f]

ButLast(s) == SubSeq(s, 1, Len(s) - 1)

\* Runtime::push: push on the current frame's stack, if there is a frame.
Push(fs, value) ==
    IF fs = <<>> THEN fs
    ELSE SetTop(fs, [Top(fs) EXCEPT !.stack = Append(@, value)])

\* Runtime::pop, the frames it leaves.
PopFrames(fs) ==
    IF fs = <<>> \/ Top(fs).stack = <<>> THEN fs
    ELSE SetTop(fs, [Top(fs) EXCEPT !.stack = ButLast(@)])

\* Runtime::pop, whether it yields Some value, and the value.
PopSome(fs) == fs # <<>> /\ Top(fs).stack # <<>>

PopValue(fs) == Top(fs).stack[Len(Top(fs).stack)]

\* Runtime::store
Store(fs, index) ==
    IF PopSome(fs)
    THEN LET popped == PopFrames(fs)
         IN  SetTop(popped, [Top(popped) EXCEPT
                 !.locals = (index :> PopValue(fs)) @@ @])
    ELSE fs

\* Runtime::load
Load(fs, index) ==
    IF fs # <<>> /\ index \in DOMAIN Top(fs).locals
    THEN Push(fs, Top(fs).locals[index])
    ELSE fs

\* Runtime::jump
Jump(fs, offset) ==
    IF fs = <<>> THEN fs
    ELSE SetTop(fs, [Top(fs) EXCEPT
             !.pc.instruction_index = @ + offset])

\* Runtime::encode_arg: two bytes as a signed 16-bit number.
EncodeArg(lo, hi) ==
    LET u == lo * 256 + hi
    IN  IF u >= 32768 THEN u - 65536 ELSE u

\* Runtime::get_relative_offset; a missing or non-Int parameter panics.
GetRelativeOffsetPanics(params) == params = <<>> \/ params[1].t # "Int"

\* get_relative_offset without the bias for the three bytes fetch consumed.
GetRelativeOffsetRaw(params) == params[1].v

GetRelativeOffset(params) == params[1].v - 3

-----------------------------------------------------------------------------
(* runtime.rs: Runtime::fetch                                              *)

TwoByteOffsetOps == CondBranches \cup {"SiPush", "Goto"}

TwoRawByteOps == {"InvokeSpecial", "GetStatic", "InvokeVirtual", "IInc"}

OneByteOps ==
    {"BiPush", "ILoad", "FLoad", "LLoad", "DLoad", "IStore", "FStore",
     "LStore", "DStore"}

\* Number of immediate bytes fetch reads after the opcode byte.
OperandBytes(mnemonic) ==
    IF mnemonic \in TwoByteOffsetOps \cup TwoRawByteOps
                    \cup {"InvokeStatic", "Ldc2W"} THEN 2
    ELSE IF mnemonic \in OneByteOps \cup {"Ldc"} THEN 1 ELSE 0

\* The constant an ldc / ldc2_w pushes: the entry's bytes cast to the value
\* type (the pools of the model hold hi_bytes = 0).
LdcPanics(prog, mnemonic, index) ==
    \/ index \notin DOMAIN prog.constant_pool
    \/ mnemonic = "Ldc"
       /\ prog.constant_pool[index].kind \notin {"Float", "Integer"}
    \/ mnemonic = "Ldc2W"
       /\ prog.constant_pool[index].kind \notin {"Double", "Long"}

LdcValue(prog, index) ==
    LET entry == prog.constant_pool[index]
    IN  CASE entry.kind = "Integer" -> VInt(entry.bytes)
          [] entry.kind = "Float" -> VFloat(entry.bytes)
          [] entry.kind = "Long" -> VLong(entry.bytes)
          [] entry.kind = "Double" -> VDouble(entry.bytes)

\* fetch reading its one-byte immediates as signed bytes.
FetchSignedBytes(fs, prog) ==
    IF fs = <<>> \/ Top(fs).pc.method_index \notin DOMAIN prog.methods
    THEN [panic |-> TRUE, inst |-> Instruction("NOP", <<>>), frames |-> fs]
    ELSE
    LET frame == Top(fs)
        code == Code(prog, frame.pc.method_index)
        i == frame.pc.instruction_index
        InCode(k) == i + k >= 0 /\ i + k < Len(code)
        Byte(k) == code[i + k + 1]
        mnemonic == IF InCode(0) THEN OPCodeFrom(Byte(0)) ELSE "NOP"
        n == OperandBytes(mnemonic)
        Signed(k) == IF Byte(k) >= 128 THEN Byte(k) - 256 ELSE Byte(k)
        arg16 == EncodeArg(Byte(1), Byte(2))
        panic ==
            \/ ~InCode(0)
            \/ ~InCode(n)
            \/ mnemonic = "InvokeStatic" /\ FindMethodPanics(prog, arg16)
            \/ mnemonic = "Ldc2W" /\ LdcPanics(prog, mnemonic, arg16)
            \/ mnemonic = "Ldc" /\ LdcPanics(prog, mnemonic, Byte(1))
        params ==
            CASE mnemonic \in TwoByteOffsetOps -> <<VInt(arg16)>>
              [] mnemonic \in TwoRawByteOps -> <<VInt(Byte(1)), VInt(Signed(2))>>
              [] mnemonic \in OneByteOps -> <<VInt(Signed(1))>>
              [] mnemonic = "InvokeStatic" -> <<VInt(FindMethod(prog, arg16))>>
              [] mnemonic = "Ldc2W" -> <<LdcValue(prog, arg16)>>
              [] mnemonic = "Ldc" -> <<LdcValue(prog, Byte(1))>>
              [] OTHER -> <<>>
    IN  IF panic
        THEN [panic |-> TRUE, inst |-> Instruction("NOP", <<>>), frames |-> fs]
        ELSE [panic |-> FALSE,
              inst |-> Instruction(mnemonic, params),
              frames |-> SetTop(fs, [frame EXCEPT
                             !.pc.instruction_index = i + 1 + n])]

\* Runtime::fetch on the current frame: the decoded instruction and the
\* frames with the current frame's instruction index advanced past it.
\* Runtime::next panics when it indexes past the end of the code.
Fetch(fs, prog) ==
    IF fs = <<>> \/ Top(fs).pc.method_index \notin DOMAIN prog.methods
    THEN [panic |-> TRUE, inst |-> Instruction("NOP", <<>>), frames |-> fs]
    ELSE
    LET frame == Top(fs)
        code == Code(prog, frame.pc.method_index)
        i == frame.pc.instruction_index
        InCode(k) == i + k >= 0 /\ i + k < Len(code)
        Byte(k) == code[i + k + 1]
        mnemonic == IF InCode(0) THEN OPCodeFrom(Byte(0)) ELSE "NOP"
        n == OperandBytes(mnemonic)
        arg16 == EncodeArg(Byte(1), Byte(2))
        panic ==
            \/ ~InCode(0)
            \/ ~InCode(n)
            \/ mnemonic = "InvokeStatic" /\ FindMethodPanics(prog, arg16)
            \/ mnemonic = "Ldc2W" /\ LdcPanics(prog, mnemonic, arg16)
            \/ mnemonic = "Ldc" /\ LdcPanics(prog, mnemonic, Byte(1))
        params ==
            CASE mnemonic \in TwoByteOffsetOps -> <<VInt(arg16)>>
              [] mnemonic \in TwoRawByteOps -> <<VInt(Byte(1)), VInt(Byte(2))>>
              [] mnemonic \in OneByteOps -> <<VInt(Byte(1))>>
              [] mnemonic = "InvokeStatic" -> <<VInt(FindMethod(prog, arg16))>>
              [] mnemonic = "Ldc2W" -> <<LdcValue(prog, arg16)>>
              [] mnemonic = "Ldc" -> <<LdcValue(prog, Byte(1))>>
              [] OTHER -> <<>>
    IN  IF panic
        THEN [panic |-> TRUE, inst |-> Instruction("NOP", <<>>), frames |-> fs]
        ELSE [panic |-> FALSE,
              inst |-> Instruction(mnemonic, params),
              frames |-> SetTop(fs, [frame EXCEPT
                             !.pc.instruction_index = i + 1 + n])]

-----------------------------------------------------------------------------
(* runtime.rs: Runtime::invoke and Runtime::eval                           *)

RECURSIVE SumSizes(_)
SumSizes(types) ==
    IF types = <<>> THEN 0
    ELSE TypeSize(types[Len(types)]) + SumSizes(ButLast(types))

\* The locals Runtime::invoke builds: the arguments are popped last first,
\* each inserted at the slot where it starts (an earlier argument is
\* inserted later, so it wins a slot two arguments share).
RECURSIVE InvokeLocals(_, _)
InvokeLocals(types, stack) ==
    IF types = <<>> THEN NoLocals
    ELSE InvokeLocals(ButLast(types), ButLast(stack))
             @@ (SumSizes(ButLast(types)) :> stack[Len(stack)])

\* Runtime::invoke; `self.pop().unwrap()` panics on an empty stack and the
\* method lookup panics on an unknown method.
InvokePanics(fs, prog, method_name_index) ==
    \/ method_name_index \notin DOMAIN prog.methods
    \/ Len(Top(fs).stack) < Len(prog.methods[method_name_index].arg_types)

Invoke(fs, prog, method_name_index) ==
    LET arg_types == prog.methods[method_name_index].arg_types
        n == Len(arg_types)
        stack == Top(fs).stack
        caller == [Top(fs) EXCEPT !.stack = SubSeq(stack, 1, Len(stack) - n)]
    IN  Append(SetTop(fs, caller),
               Frame(PC(method_name_index, 0), <<>>,
                     InvokeLocals(arg_types, stack)))

EvalResult(fs, rvs, result) ==
    [frames |-> fs, return_values |-> rvs, result |-> result]

\* The two-operand opcodes: `rhs = pop(); lhs = pop()`, then the operation
\* when both are Some and Err(InvalidValue) otherwise.
\* The arithmetic arm taking the top of the stack as the left operand.
EvalArithSwapped(fs, rvs, op) ==
    LET fs1 == PopFrames(fs)
        fs2 == PopFrames(fs1)
    IN  IF PopSome(fs) /\ PopSome(fs1)
        THEN LET lhs == PopValue(fs)
                 rhs == PopValue(fs1)
             IN  IF op = "cmp"
                 THEN IF lhs.t # rhs.t THEN EvalResult(fs2, rvs, "panic")
                      ELSE EvalResult(Push(fs2, VInt(ValueCompare(lhs, rhs))),
                                      rvs, "ok")
                 ELSE IF ArithPanics(op, lhs, rhs)
                      THEN EvalResult(fs2, rvs, "panic")
                      ELSE EvalResult(Push(fs2, Arith(op, lhs, rhs)), rvs, "ok")
        ELSE EvalResult(fs2, rvs, "err")

EvalArith(fs, rvs, op) ==
    LET fs1 == PopFrames(fs)
        fs2 == PopFrames(fs1)
    IN  IF PopSome(fs) /\ PopSome(fs1)
        THEN LET rhs == PopValue(fs)
                 lhs == PopValue(fs1)
             IN  IF op = "cmp"
                 THEN IF lhs.t # rhs.t THEN EvalResult(fs2, rvs, "panic")
                      ELSE EvalResult(Push(fs2, VInt(ValueCompare(lhs, rhs))),
                                      rvs, "ok")
                 ELSE IF ArithPanics(op, lhs, rhs)
                      THEN EvalResult(fs2, rvs, "panic")
                      ELSE EvalResult(Push(fs2, Arith(op, lhs, rhs)), rvs, "ok")
        ELSE EvalResult(fs2, rvs, "err")

\* The conversions: `self.pop()` then `expect`, which panics on None.
Convert(val, to) ==
    CASE to = "Int" -> VInt(val.v)
      [] to = "Long" -> VLong(val.v)
      [] to = "Float" -> VFloat(val.v)
      [] to = "Double" -> VDouble(val.v)

EvalConvert(fs, rvs, to) ==
    IF PopSome(fs)
    THEN EvalResult(Push(PopFrames(fs), Convert(PopValue(fs), to)), rvs, "ok")
    ELSE EvalResult(fs, rvs, "panic")

\* ifeq .. ifle: the popped value must be Some(Value::Int) or eval panics;
\* the parameters must exist or eval panics.
UnaryHolds(mnemonic, value) ==
    CASE mnemonic = "IfEq" -> value = 0
      [] mnemonic = "IfNe" -> value # 0
      [] mnemonic = "IfLt" -> value < 0
      [] mnemonic = "IfGt" -> value > 0
      [] mnemonic = "IfLe" -> value <= 0
      [] mnemonic = "IfGe" -> value >= 0

EvalUnaryBranch(fs, rvs, inst) ==
    IF ~PopSome(fs) \/ PopValue(fs).t # "Int"
       \/ GetRelativeOffsetPanics(inst.operands)
    THEN EvalResult(PopFrames(fs), rvs, "panic")
    ELSE IF UnaryHolds(inst.mnemonic, PopValue(fs).v)
         THEN EvalResult(Jump(PopFrames(fs), GetRelativeOffset(inst.operands)),
                         rvs, "ok")
         ELSE EvalResult(PopFrames(fs), rvs, "ok")

\* if_icmp<cond>: the comparison is the derived one on Value.
BinaryHolds(mnemonic, a, b) ==
    CASE mnemonic = "IfICmpEq" -> a = b
      [] mnemonic = "IfICmpNe" -> a # b
      [] mnemonic = "IfICmpLt" -> ValueLt(a, b)
      [] mnemonic = "IfICmpGt" -> ValueLt(b, a)
      [] mnemonic = "IfICmpLe" -> ValueLt(a, b) \/ a = b
      [] mnemonic = "IfICmpGe" -> ValueLt(b, a) \/ a = b

EvalBinaryBranch(fs, rvs, inst) ==
    LET fs1 == PopFrames(fs)
        fs2 == PopFrames(fs1)
    IN  IF GetRelativeOffsetPanics(inst.operands)
        THEN EvalResult(fs2, rvs, "panic")
        ELSE IF PopSome(fs) /\ PopSome(fs1)
             THEN IF BinaryHolds(inst.mnemonic, PopValue(fs1), PopValue(fs))
                  THEN EvalResult(Jump(fs2, GetRelativeOffset(inst.operands)),
                                  rvs, "ok")
                  ELSE EvalResult(fs2, rvs, "ok")
             ELSE EvalResult(fs2, rvs, "err")

\* A typed return that does not record the value it returns.
EvalTypedReturnUnrecorded(fs, rvs) ==
    IF Top(fs).stack = <<>> THEN EvalResult(ButLast(fs), rvs, "panic")
    ELSE LET value == PopValue(fs)
         IN  EvalResult(Push(ButLast(fs), value), rvs, "ok")

\* ireturn .. dreturn: pop the frame, `frame.stack.pop().unwrap()`, record
\* the value and push it on the caller's stack.
EvalTypedReturn(fs, rvs) ==
    IF Top(fs).stack = <<>> THEN EvalResult(ButLast(fs), rvs, "panic")
    ELSE LET value == PopValue(fs)
         IN  EvalResult(Push(ButLast(fs), value), Append(rvs, value), "ok")

ConstPush ==
    [IconstM1 |-> VInt(-1), Iconst0 |-> VInt(0), Iconst1 |-> VInt(1),
     Iconst2 |-> VInt(2), Iconst3 |-> VInt(3), Iconst4 |-> VInt(4),
     Iconst5 |-> VInt(5), Lconst0 |-> VLong(0), Lconst1 |-> VLong(1),
     Fconst0 |-> VFloat(0), Fconst1 |-> VFloat(1), Fconst2 |-> VFloat(2),
     Dconst0 |-> VDouble(0), Dconst1 |-> VDouble(1)]

\* The local index of a short-form load or store, from its last character.
ShortIndex ==
    [ILoad0 |-> 0, LLoad0 |-> 0, FLoad0 |-> 0, DLoad0 |-> 0,
     ILoad1 |-> 1, LLoad1 |-> 1, FLoad1 |-> 1, DLoad1 |-> 1,
     ILoad2 |-> 2, LLoad2 |-> 2, FLoad2 |-> 2, DLoad2 |-> 2,
     ILoad3 |-> 3, LLoad3 |-> 3, FLoad3 |-> 3, DLoad3 |-> 3,
     IStore0 |-> 0, LStore0 |-> 0, FStore0 |-> 0, DStore0 |-> 0,
     IStore1 |-> 1, LStore1 |-> 1, FStore1 |-> 1, DStore1 |-> 1,
     IStore2 |-> 2, LStore2 |-> 2, FStore2 |-> 2, DStore2 |-> 2,
     IStore3 |-> 3, LStore3 |-> 3, FStore3 |-> 3, DStore3 |-> 3]

ShortLoads == {ShortLoadNames[k] : k \in DOMAIN ShortLoadNames}

ShortStores == {StoreNames[k] : k \in 6..21}

ArithOp(mnemonic) ==
    CASE mnemonic \in {"IAdd", "LAdd", "FAdd", "DAdd"} -> "add"
      [] mnemonic \in {"ISub", "LSub", "FSub", "DSub"} -> "sub"
      [] mnemonic \in {"IMul", "LMul", "FMul", "DMul"} -> "mul"
      [] mnemonic \in {"IDiv", "LDiv", "FDiv", "DDiv"} -> "div"
      [] mnemonic \in {"IRem", "LRem", "FRem", "DRem"} -> "rem"
      [] mnemonic \in {"LCmp", "FCmpL", "FCmpG", "DCmpL", "DCmpG"} -> "cmp"

ConvertTo(mnemonic) ==
    CASE mnemonic \in {"L2I", "F2I", "D2I"} -> "Int"
      [] mnemonic \in {"I2F", "L2F", "D2F"} -> "Float"
      [] mnemonic \in {"I2D", "L2D", "F2D"} -> "Double"
      [] mnemonic \in {"I2L", "F2L", "D2L"} -> "Long"

TypedReturns == {"IReturn", "LReturn", "FReturn", "DReturn"}

\* iinc: `locals.entry(index).and_modify(add).or_insert(constant)`.
\* The iinc arm storing the constant over a local that is present.
EvalIIncOverwrite(fs, rvs, inst) ==
    LET params == inst.operands
    IN  IF Len(params) < 2 THEN EvalResult(fs, rvs, "err")
        ELSE IF params[1].t # "Int" \/ params[2].t # "Int"
        THEN EvalResult(fs, rvs, "err")
        ELSE LET index == params[1].v
                 locals == Top(fs).locals
             IN  IF index \in DOMAIN locals
                 THEN IF locals[index].t # "Int"
                      THEN EvalResult(fs, rvs, "panic")
                      ELSE EvalResult(
                               SetTop(fs, [Top(fs) EXCEPT !.locals[index] =
                                               params[2]]),
                               rvs, "ok")
                 ELSE EvalResult(
                          SetTop(fs, [Top(fs) EXCEPT !.locals =
                                          (index :> params[2]) @@ @]),
                          rvs, "ok")

EvalIInc(fs, rvs, inst) ==
    LET params == inst.operands
    IN  IF Len(params) < 2 THEN EvalResult(fs, rvs, "err")
        ELSE IF params[1].t # "Int" \/ params[2].t # "Int"
        THEN EvalResult(fs, rvs, "err")
        ELSE LET index == params[1].v
                 locals == Top(fs).locals
             IN  IF index \in DOMAIN locals
                 THEN IF locals[index].t # "Int"
                      THEN EvalResult(fs, rvs, "panic")
                      ELSE EvalResult(
                               SetTop(fs, [Top(fs) EXCEPT !.locals[index] =
                                               ValueAdd(@, params[2])]),
                               rvs, "ok")
                 ELSE EvalResult(
                          SetTop(fs, [Top(fs) EXCEPT !.locals =
                                          (index :> params[2]) @@ @]),
                          rvs, "ok")

\* Runtime::eval: the frames and return values after the instruction, and
\* how eval ended: "ok" (Ok), "err" (a RuntimeError) or "panic".
Eval(fs, rvs, inst, prog) ==
    LET m == inst.mnemonic
        params == inst.operands
    IN  IF fs = <<>> THEN EvalResult(fs, rvs, "ok")
        ELSE
        CASE m \in DOMAIN ConstPush -> EvalResult(Push(fs, ConstPush[m]), rvs, "ok")
          [] m \in {"BiPush", "SiPush", "Ldc", "Ldc2W"} ->
                IF params = <<>> THEN EvalResult(fs, rvs, "err")
                ELSE EvalResult(Push(fs, params[1]), rvs, "ok")
          [] m \in {"ILoad", "LLoad", "FLoad", "DLoad"} ->
                IF params = <<>> \/ params[1].t # "Int"
                THEN EvalResult(fs, rvs, "err")
                ELSE EvalResult(Load(fs, params[1].v), rvs, "ok")
          [] m \in ShortLoads -> EvalResult(Load(fs, ShortIndex[m]), rvs, "ok")
          [] m \in {"IStore", "LStore", "FStore", "DStore"} ->
                IF params = <<>> \/ params[1].t # "Int"
                THEN EvalResult(fs, rvs, "err")
                ELSE EvalResult(Store(fs, params[1].v), rvs, "ok")
          [] m \in ShortStores -> EvalResult(Store(fs, ShortIndex[m]), rvs, "ok")
          [] m \in {ArithNames[k] : k \in DOMAIN ArithNames}
                   \cup {"LCmp", "FCmpL", "FCmpG", "DCmpL", "DCmpG"} ->
                EvalArith(fs, rvs, ArithOp(m))
          [] m = "IInc" -> EvalIInc(fs, rvs, inst)
          [] m \in {ConvNames[k] : k \in 2..13} ->
                EvalConvert(fs, rvs, ConvertTo(m))
          [] m \in {"IfEq", "IfNe", "IfLt", "IfGt", "IfLe", "IfGe"} ->
                EvalUnaryBranch(fs, rvs, inst)
          [] m \in {"IfICmpEq", "IfICmpNe", "IfICmpLt", "IfICmpGt",
                    "IfICmpLe", "IfICmpGe"} ->
                EvalBinaryBranch(fs, rvs, inst)
          [] m = "Goto" ->
                IF GetRelativeOffsetPanics(params)
                THEN EvalResult(fs, rvs, "panic")
                ELSE EvalResult(Jump(fs, GetRelativeOffset(params)), rvs, "ok")
          [] m \in TypedReturns -> EvalTypedReturn(fs, rvs)
          [] m = "Return" -> EvalResult(ButLast(fs), rvs, "ok")
          [] m = "InvokeStatic" ->
                IF params = <<>> \/ params[1].t # "Int"
                   \/ InvokePanics(fs, prog, params[1].v)
                THEN EvalResult(fs, rvs, "panic")
                ELSE EvalResult(Invoke(fs, prog, params[1].v), rvs, "ok")
          [] m = "InvokeVirtual" -> EvalResult(PopFrames(fs), rvs, "ok")
          [] m \in {"GetStatic", "NOP", "Dup"} -> EvalResult(fs, rvs, "ok")
          [] OTHER -> EvalResult(fs, rvs, "panic")

\* Runtime::top_return_value; <<>> stands for None, <<v>> for Some(v).
TopReturnValue(rvs) ==
    IF rvs = <<>> THEN <<>> ELSE <<rvs[Len(rvs)]>>

-----------------------------------------------------------------------------
(* profiler.rs                                                             *)

NoRecords == [pc \in {} |-> 0]

\* Profiler::new
ProfilerNew == [threshold |-> 2, last_pc |-> NewPC, records |-> NoRecords]

\* The match on `self.records.get_mut(pc)` both count operations share.
Counted(records, pc) ==
    IF pc \in DOMAIN records
    THEN [records EXCEPT ![pc] = @ + 1]
    ELSE (pc :> 1) @@ records

\* count_entry with the index test weakened to "not after".
CountEntryNotAfter(p, pc) ==
    [p EXCEPT
        !.records =
            IF /\ pc.method_index = p.last_pc.method_index
               /\ pc.instruction_index <= p.last_pc.instruction_index
            THEN Counted(@, pc)
            ELSE @,
        !.last_pc = pc]

\* Profiler::count_entry
CountEntry(p, pc) ==
    [p EXCEPT
        !.records =
            IF /\ pc.method_index = p.last_pc.method_index
               /\ pc.instruction_index < p.last_pc.instruction_index
            THEN Counted(@, pc)
            ELSE @,
        !.last_pc = pc]

\* Profiler::count_exit
CountExit(p, pc) ==
    [p EXCEPT !.records = Counted(@, pc), !.last_pc = pc]

\* is_hot with the threshold itself counted as hot.
IsHotAtThreshold(p, pc) ==
    IF pc \in DOMAIN p.records THEN p.records[pc] >= p.threshold ELSE FALSE

\* Profiler::is_hot
IsHot(p, pc) ==
    IF pc \in DOMAIN p.records THEN p.records[pc] > p.threshold ELSE FALSE

-----------------------------------------------------------------------------
(* trace.rs                                                                *)

RecordEntry(pc, inst) == [pc |-> pc, inst |-> inst]

\* Recorder::new
RecorderNew ==
    [trace_start |-> NewPC,
     loop_header |-> NewPC,
     is_recording |-> FALSE,
     last_instruction_was_branch |-> FALSE,
     trace |-> <<>>,
     inner_branch_targets |-> {},
     outer_branch_targets |-> {}]

\* Recorder::is_recording
IsRecording(r) == r.is_recording

ReturnOps == {"Return", "IReturn", "LReturn", "FReturn", "DReturn"}

\* is_done_recording comparing the pc with the trace start instead of the
\* loop header.
IsDoneRecordingAtStart(r, pc) ==
    IF r.trace = <<>> THEN [recorder |-> r, ret |-> FALSE]
    ELSE LET entry == r.trace[Len(r.trace)]
         IN  IF /\ entry.inst.mnemonic \in ReturnOps
                /\ pc.method_index = entry.pc.method_index
             THEN [recorder |-> [r EXCEPT !.is_recording = FALSE],
                   ret |-> FALSE]
             ELSE [recorder |-> r, ret |-> pc = r.trace_start]

\* Recorder::is_done_recording: the recorder it leaves and what it returns.
IsDoneRecording(r, pc) ==
    IF r.trace = <<>> THEN [recorder |-> r, ret |-> FALSE]
    ELSE LET entry == r.trace[Len(r.trace)]
         IN  IF /\ entry.inst.mnemonic \in ReturnOps
                /\ pc.method_index = entry.pc.method_index
             THEN [recorder |-> [r EXCEPT !.is_recording = FALSE],
                   ret |-> FALSE]
             ELSE [recorder |-> r, ret |-> pc = r.loop_header]

\* Recorder::get_params: the operand a short-form opcode stands for; <<>>
\* stands for None.
GetParams(opcode) ==
    IF opcode \in DOMAIN ShortIndex THEN <<VInt(ShortIndex[opcode])>>
    ELSE IF opcode \in DOMAIN ConstPush THEN <<ConstPush[opcode]>>
    ELSE <<>>

\* The match arm of Recorder::record that rewrites short forms (it names
\* no LStore form).
RecordShortForms ==
    (DOMAIN ConstPush \cup DOMAIN ShortIndex)
        \ {"LStore0", "LStore1", "LStore2", "LStore3"}

\* The conditional branches Recorder::record flags.
RecordedBranches ==
    {"IfNe", "IfEq", "IfGt", "IfICmpGe", "IfICmpGt", "IfICmpLt", "IfICmpLe",
     "IfICmpNe", "IfICmpEq"}

\* The `flipped` match of Recorder::flip_branch; any other mnemonic reaches
\* todo!().
Flippable ==
    {"IfNe", "IfGt", "IfICmpGe", "IfICmpGt", "IfICmpLe", "IfICmpNe"}

Flipped(mnemonic) ==
    CASE mnemonic = "IfNe" -> "IfEq"
      [] mnemonic = "IfGt" -> "IfLe"
      [] mnemonic = "IfICmpGe" -> "IfICmpLt"
      [] mnemonic = "IfICmpGt" -> "IfICmpLe"
      [] mnemonic = "IfICmpLe" -> "IfICmpGt"
      [] mnemonic = "IfICmpNe" -> "IfICmpEq"

\* Recorder::flip_branch.  The popped entry is pushed back only when it is
\* flipped; the write of the new offset goes to a clone of the parameters,
\* so the entry keeps its operand; `offset` is 3 when the target set is
\* chosen.
\* flip_branch leaving last_instruction_was_branch as it was.
FlipBranchKeepsFlag(r, pc) ==
    LET cleared == r
    IN  IF r.trace = <<>> THEN [recorder |-> cleared, panic |-> FALSE]
        ELSE
        LET branch_entry == r.trace[Len(r.trace)]
            popped == [cleared EXCEPT !.trace = ButLast(@)]
            params == branch_entry.inst.operands
        IN  IF params = <<>> \/ params[1].t # "Int"
            THEN [recorder |-> popped, panic |-> TRUE]
            ELSE
            IF IncInstructionIndex(branch_entry.pc, params[1].v) = pc
            THEN IF branch_entry.inst.mnemonic \notin Flippable
                 THEN [recorder |-> popped, panic |-> TRUE]
                 ELSE
                 LET offset == 3
                     branch_target ==
                         IncInstructionIndex(branch_entry.pc, offset)
                     new_branch_target ==
                         Instruction(Flipped(branch_entry.inst.mnemonic),
                                     params)
                     pushed == [popped EXCEPT !.trace =
                         Append(@, RecordEntry(branch_entry.pc,
                                               new_branch_target))]
                 IN  [recorder |->
                         IF offset < 0
                         THEN [pushed EXCEPT !.inner_branch_targets =
                                   @ \cup {branch_target}]
                         ELSE [pushed EXCEPT !.outer_branch_targets =
                                   @ \cup {branch_target}],
                      panic |-> FALSE]
            ELSE [recorder |-> popped, panic |-> FALSE]

FlipBranch(r, pc) ==
    LET cleared == [r EXCEPT !.last_instruction_was_branch = FALSE]
    IN  IF r.trace = <<>> THEN [recorder |-> cleared, panic |-> FALSE]
        ELSE
        LET branch_entry == r.trace[Len(r.trace)]
            popped == [cleared EXCEPT !.trace = ButLast(@)]
            params == branch_entry.inst.operands
        IN  IF params = <<>> \/ params[1].t # "Int"
            THEN [recorder |-> popped, panic |-> TRUE]
            ELSE
            IF IncInstructionIndex(branch_entry.pc, params[1].v) = pc
            THEN IF branch_entry.inst.mnemonic \notin Flippable
                 THEN [recorder |-> popped, panic |-> TRUE]
                 ELSE
                 LET offset == 3
                     branch_target ==
                         IncInstructionIndex(branch_entry.pc, offset)
                     new_branch_target ==
                         Instruction(Flipped(branch_entry.inst.mnemonic),
                                     params)
                     pushed == [popped EXCEPT !.trace =
                         Append(@, RecordEntry(branch_entry.pc,
                                               new_branch_target))]
                 IN  [recorder |->
                         IF offset < 0
                         THEN [pushed EXCEPT !.inner_branch_targets =
                                   @ \cup {branch_target}]
                         ELSE [pushed EXCEPT !.outer_branch_targets =
                                   @ \cup {branch_target}],
                      panic |-> FALSE]
            ELSE [recorder |-> popped, panic |-> FALSE]

\* record whose Goto arm files every target under the outer targets.
RecordGotoAlwaysOuter(r, pc, inst) ==
    LET flip == IF r.last_instruction_was_branch
                THEN FlipBranch(r, pc)
                ELSE [recorder |-> r, panic |-> FALSE]
        r1 == flip.recorder
        m == inst.mnemonic
        params == inst.operands
        Pushed(rec, i) == [rec EXCEPT !.trace = Append(@, RecordEntry(pc, i))]
    IN  IF flip.panic THEN flip
        ELSE
        CASE m = "Goto" ->
                IF params = <<>> \/ params[1].t # "Int"
                THEN [recorder |-> r1, panic |-> TRUE]
                ELSE IF params[1].v > 0
                THEN [recorder |-> r1, panic |-> FALSE]
                ELSE LET branch_target == IncInstructionIndex(pc, params[1].v)
                     IN  [recorder |-> Pushed(
                             [r1 EXCEPT !.outer_branch_targets =
                                       @ \cup {branch_target}], inst),
                          panic |-> FALSE]
          [] m \in RecordedBranches ->
                [recorder |->
                     Pushed([r1 EXCEPT !.last_instruction_was_branch = TRUE],
                            inst),
                 panic |-> FALSE]
          [] m = "InvokeStatic" ->
                IF params = <<>> \/ params[1].t # "Int"
                THEN [recorder |-> r1, panic |-> TRUE]
                ELSE IF r1.trace_start.method_index = params[1].v
                THEN [recorder |-> [r1 EXCEPT !.is_recording = FALSE],
                      panic |-> FALSE]
                ELSE [recorder |-> Pushed(r1, inst), panic |-> FALSE]
          [] m \in RecordShortForms ->
                [recorder |-> Pushed(r1, Instruction(m, GetParams(m))),
                 panic |-> FALSE]
          [] OTHER -> [recorder |-> Pushed(r1, inst), panic |-> FALSE]

\* record without the check for a recursive call.
RecordRecursiveCall(r, pc, inst) ==
    LET flip == IF r.last_instruction_was_branch
                THEN FlipBranch(r, pc)
                ELSE [recorder |-> r, panic |-> FALSE]
        r1 == flip.recorder
        m == inst.mnemonic
        params == inst.operands
        Pushed(rec, i) == [rec EXCEPT !.trace = Append(@, RecordEntry(pc, i))]
    IN  IF flip.panic THEN flip
        ELSE
        CASE m = "Goto" ->
                IF params = <<>> \/ params[1].t # "Int"
                THEN [recorder |-> r1, panic |-> TRUE]
                ELSE IF params[1].v > 0
                THEN [recorder |-> r1, panic |-> FALSE]
                ELSE LET branch_target == IncInstructionIndex(pc, params[1].v)
                     IN  [recorder |-> Pushed(
                             IF r1.trace_start = branch_target
                             THEN [r1 EXCEPT !.inner_branch_targets =
                                       @ \cup {branch_target}]
                             ELSE [r1 EXCEPT !.outer_branch_targets =
                                       @ \cup {branch_target}], inst),
                          panic |-> FALSE]
          [] m \in RecordedBranches ->
                [recorder |->
                     Pushed([r1 EXCEPT !.last_instruction_was_branch = TRUE],
                            inst),
                 panic |-> FALSE]
          [] m = "InvokeStatic" ->
                IF params = <<>> \/ params[1].t # "Int"
                THEN [recorder |-> r1, panic |-> TRUE]
                ELSE [recorder |-> Pushed(r1, inst), panic |-> FALSE]
          [] m \in RecordShortForms ->
                [recorder |-> Pushed(r1, Instruction(m, GetParams(m))),
                 panic |-> FALSE]
          [] OTHER -> [recorder |-> Pushed(r1, inst), panic |-> FALSE]

\* Recorder::record
Record(r, pc, inst) ==
    LET flip == IF r.last_instruction_was_branch
                THEN FlipBranch(r, pc)
                ELSE [recorder |-> r, panic |-> FALSE]
        r1 == flip.recorder
        m == inst.mnemonic
        params == inst.operands
        Pushed(rec, i) == [rec EXCEPT !.trace = Append(@, RecordEntry(pc, i))]
    IN  IF flip.panic THEN flip
        ELSE
        CASE m = "Goto" ->
                IF params = <<>> \/ params[1].t # "Int"
                THEN [recorder |-> r1, panic |-> TRUE]
                ELSE IF params[1].v > 0
                THEN [recorder |-> r1, panic |-> FALSE]
                ELSE LET branch_target == IncInstructionIndex(pc, params[1].v)
                     IN  [recorder |-> Pushed(
                             IF r1.trace_start = branch_target
                             THEN [r1 EXCEPT !.inner_branch_targets =
                                       @ \cup {branch_target}]
                             ELSE [r1 EXCEPT !.outer_branch_targets =
                                       @ \cup {branch_target}], inst),
                          panic |-> FALSE]
          [] m \in RecordedBranches ->
                [recorder |->
                     Pushed([r1 EXCEPT !.last_instruction_was_branch = TRUE],
                            inst),
                 panic |-> FALSE]
          [] m = "InvokeStatic" ->
                IF params = <<>> \/ params[1].t # "Int"
                THEN [recorder |-> r1, panic |-> TRUE]
                ELSE IF r1.trace_start.method_index = params[1].v
                THEN [recorder |-> [r1 EXCEPT !.is_recording = FALSE],
                      panic |-> FALSE]
                ELSE [recorder |-> Pushed(r1, inst), panic |-> FALSE]
          [] m \in RecordShortForms ->
                [recorder |-> Pushed(r1, Instruction(m, GetParams(m))),
                 panic |-> FALSE]
          [] OTHER -> [recorder |-> Pushed(r1, inst), panic |-> FALSE]

\* init without the early return.
RecorderInitAlways(r, loop_header, start) ==
    [trace_start |-> start,
     loop_header |-> loop_header,
     is_recording |-> TRUE,
     last_instruction_was_branch |-> FALSE,
     trace |-> <<>>,
     inner_branch_targets |-> {},
     outer_branch_targets |-> {}]

\* init that forgets to clear the branch targets.
RecorderInitKeepsTargets(r, loop_header, start) ==
    IF r.is_recording /\ r.trace_start = start THEN r
    ELSE [trace_start |-> start,
          loop_header |-> loop_header,
          is_recording |-> TRUE,
          last_instruction_was_branch |-> FALSE,
          trace |-> <<>>,
          inner_branch_targets |-> r.inner_branch_targets,
          outer_branch_targets |-> r.outer_branch_targets]

\* Recorder::init
RecorderInit(r, loop_header, start) ==
    IF r.is_recording /\ r.trace_start = start THEN r
    ELSE [trace_start |-> start,
          loop_header |-> loop_header,
          is_recording |-> TRUE,
          last_instruction_was_branch |-> FALSE,
          trace |-> <<>>,
          inner_branch_targets |-> {},
          outer_branch_targets |-> {}]

\* recording that reports the loop header as the start.
RecorderRecordingFromHeader(r) ==
    [recorder |-> [r EXCEPT !.is_recording = FALSE],
     ret |-> [start |-> r.loop_header,
              trace |-> r.trace,
              inner_branch_targets |-> r.inner_branch_targets,
              outer_branch_targets |-> r.outer_branch_targets]]

\* Recorder::recording: the recorder it leaves and the Recording it returns.
RecorderRecording(r) ==
    [recorder |-> [r EXCEPT !.is_recording = FALSE],
     ret |-> [start |-> r.trace_start,
              trace |-> r.trace,
              inner_branch_targets |-> r.inner_branch_targets,
              outer_branch_targets |-> r.outer_branch_targets]]

-----------------------------------------------------------------------------
(* jit.rs: operands, the register queue, JitCache::compile                 *)

Register(reg) == [kind |-> "Register", reg |-> reg, imm |-> 0]
Immediate(imm) == [kind |-> "Immediate", reg |-> "None", imm |-> imm]
Memory(base, offset) == [kind |-> "Memory", reg |-> base, imm |-> offset]
NoOperand == [kind |-> "None", reg |-> "None", imm |-> 0]

\* The scratch pool of JitCache::new, in queue order.
InitialRegisters ==
    <<"Rax", "Rcx", "R8", "R9", "R10", "R11", "Rbx", "R12", "R13", "R14",
      "R15">>

NoTraces == [pc \in {} |-> <<>>]

NoLabels == [pc \in {} |-> 0]

\* JitCache::new
JitCacheNew ==
    [registers |-> InitialRegisters,
     operands |-> <<>>,
     traces |-> NoTraces,
     labels |-> NoLabels]

\* JitCache::has_native_trace
HasNativeTrace(jc, pc) == pc \in DOMAIN jc.traces

\* One emitted machine instruction.  `label` is a dynamic label's number
\* in its assembler (for "label", a binding `=>l`, and "jmp") and the
\* condition code for "jcc" is in `cc`.
Asm(op, dst, src) == [op |-> op, dst |-> dst, src |-> src, label |-> 0, cc |-> ""]
AsmLabel(l) == [op |-> "label", dst |-> NoOperand, src |-> NoOperand, label |-> l, cc |-> ""]
AsmJmp(l) == [op |-> "jmp", dst |-> NoOperand, src |-> NoOperand, label |-> l, cc |-> ""]
AsmJcc(cc) == [op |-> "jcc", dst |-> NoOperand, src |-> NoOperand, label |-> 0, cc |-> cc]

\* The state of one compile call: the cache fields it works on, the code
\* emitted so far, the number of dynamic labels its assembler has handed out,
\* the exit pc and whether a panic was reached.
Emit(cs, instr) == [cs EXCEPT !.code = Append(@, instr)]

Panicked(cs) == [cs EXCEPT !.panic = TRUE]

\* JitCache::first_available_register, the register it hands out.
NoRegisterAvailable(cs) == cs.registers = <<>>

TakeRegister(cs) == [cs EXCEPT !.registers = Tail(@)]

\* JitCache::free_register: pop the operand stack; a register goes back to
\* the end of the queue.  PoppedOperand is NoOperand for None.
PoppedOperand(cs) ==
    IF cs.operands = <<>> THEN NoOperand ELSE cs.operands[Len(cs.operands)]

PopOperand(cs) ==
    IF cs.operands = <<>> THEN cs ELSE [cs EXCEPT !.operands = ButLast(@)]

\* free_register handing the register back without popping the operand.
FreeRegisterKeepsOperand(cs) ==
    LET op == PoppedOperand(cs)
    IN  IF op.kind = "Register"
        THEN [cs EXCEPT !.registers = Append(@, op.reg)]
        ELSE PopOperand(cs)

FreeRegister(cs) ==
    LET op == PoppedOperand(cs)
    IN  IF op.kind = "Register"
        THEN [PopOperand(cs) EXCEPT !.registers = Append(@, op.reg)]
        ELSE PopOperand(cs)

PushOperand(cs, op) == [cs EXCEPT !.operands = Append(@, op)]

\* JitCache::emit_mov: the operand pairs it has an encoding for.
MovEncodable(dst, src) ==
    \/ dst.kind = "Register" /\ src.kind \in {"Register", "Immediate", "Memory"}
    \/ dst.kind = "Memory" /\ src.kind \in {"Register", "Immediate"}

EmitMov(cs, dst, src) ==
    IF MovEncodable(dst, src) THEN Emit(cs, Asm("mov", dst, src))
    ELSE Panicked(cs)

\* JitCache::emit_arithmetic
EmitArithmetic(cs, op) ==
    IF Len(cs.operands) < 2 THEN Panicked(cs)
    ELSE
    LET rhs == cs.operands[Len(cs.operands)]
        lhs == cs.operands[Len(cs.operands) - 1]
        popped == [cs EXCEPT !.operands = SubSeq(@, 1, Len(@) - 2)]
    IN  IF lhs.kind # "Register" /\ NoRegisterAvailable(popped)
        THEN Panicked(popped)
        ELSE
        LET dst == IF lhs.kind = "Register" THEN lhs
                   ELSE Register(Head(popped.registers))
            moved == IF lhs.kind = "Register" THEN popped
                     ELSE EmitMov(TakeRegister(popped), dst, lhs)
            freed == IF rhs.kind = "Register"
                     THEN [moved EXCEPT !.registers = Append(@, rhs.reg)]
                     ELSE moved
        IN  Emit(PushOperand(freed, dst), Asm(op, dst, rhs))

\* JitCache::emit_div
EmitDiv(cs, op) ==
    IF cs.operands = <<>> THEN Panicked(cs)
    ELSE
    LET denom == PoppedOperand(cs)
        popped == PopOperand(cs)
        nom == PoppedOperand(popped)
        freed == FreeRegister(popped)
        loaded == IF nom.kind = "None" THEN freed
                  ELSE EmitMov(freed, Register("Rax"), nom)
    IN  IF denom.kind # "Register" /\ NoRegisterAvailable(loaded)
        THEN Panicked(loaded)
        ELSE
        LET dst == IF denom.kind = "Register" THEN denom
                   ELSE Register(Head(loaded.registers))
            moved == IF denom.kind = "Register" THEN loaded
                     ELSE EmitMov(TakeRegister(loaded), dst, denom)
            src == IF op = "IDiv" THEN "Rax" ELSE "Rdx"
            divided == Emit(Emit(moved,
                           Asm("mov", Register("Rdx"), Immediate(0))),
                           Asm("div", dst, NoOperand))
        IN  PushOperand(EmitMov(divided, dst, Register(src)), dst)

\* JitCache::emit_cond_branch: the operand pairs its cmp has an encoding
\* for, and the jump of each condition.
CmpEncodable(lhs, rhs) ==
    \/ lhs.kind = "Register" /\ rhs.kind \in {"Register", "Memory", "Immediate"}
    \/ lhs.kind = "Memory" /\ rhs.kind \in {"Register", "Immediate"}

CondJump(cond) ==
    CASE cond = "IfICmpGt" -> "jg"
      [] cond = "IfICmpGe" -> "jge"
      [] cond = "IfICmpLe" -> "jle"
      [] cond = "IfICmpEq" -> "je"
      [] OTHER -> ""

EmitCondBranch(cs, cond) ==
    LET rhs == PoppedOperand(cs)
        cs1 == FreeRegister(cs)
        lhs == PoppedOperand(cs1)
        cs2 == FreeRegister(cs1)
    IN  IF rhs.kind = "None" THEN Panicked(cs1)
        ELSE IF lhs.kind = "None" THEN Panicked(cs2)
        ELSE IF ~CmpEncodable(lhs, rhs) \/ CondJump(cond) = ""
        THEN Panicked(cs2)
        ELSE Emit(Emit(cs2, Asm("cmp", lhs, rhs)), AsmJcc(CondJump(cond)))

\* The IfEq and IfNe arms of compile: `cmp <operand>, 0` and a jump to
\* abort_guard when equal (je and jz are one instruction).
EmitUnaryBranch(cs) ==
    LET operand == PoppedOperand(cs)
        freed == FreeRegister(cs)
    IN  IF operand.kind \in {"Register", "Memory"}
        THEN Emit(Emit(freed, Asm("cmp", operand, Immediate(0))), AsmJcc("je"))
        ELSE Panicked(freed)

\* The opcodes JitCache::compile has an arm for; every other recorded
\* instruction only gets a label (`_ => ()`).
CompiledLoads == {"ILoad", "ILoad0", "ILoad1", "ILoad2", "ILoad3"}

CompiledStores == {"IStore", "IStore0", "IStore1", "IStore2", "IStore3"}

CompiledPushes == {"BiPush", "SiPush", "Ldc"}

CompiledGuards == {"IfICmpGe", "IfICmpGt", "IfICmpLe", "IfICmpEq"}

AsmOf(mnemonic) ==
    CASE mnemonic = "IAdd" -> "add"
      [] mnemonic = "ISub" -> "sub"
      [] mnemonic = "IMul" -> "imul"
      [] OTHER -> ""

\* entry.instruction().nth(k) is Some(Value::Int(_)), k counted from 0.
NthIsInt(entry, k) ==
    /\ Len(entry.inst.operands) > k
    /\ entry.inst.operands[k + 1].t = "Int"

NthInt(entry, k) == entry.inst.operands[k + 1].v

\* One iteration of the loop over recording.trace in JitCache::compile.
CompileEntry(cs, entry) ==
    LET inst_label == cs.nlabels
        cs1 == [cs EXCEPT !.nlabels = @ + 1,
                          !.labels = (entry.pc :> inst_label) @@ @]
        m == entry.inst.mnemonic
        bound == Emit(cs1, AsmLabel(inst_label))
    IN  CASE m \in CompiledLoads ->
               IF ~NthIsInt(entry, 0) \/ NoRegisterAvailable(cs1)
               THEN Panicked(cs1)
               ELSE LET dst == Register(Head(cs1.registers))
                    IN  PushOperand(
                            EmitMov(TakeRegister(bound), dst,
                                    Memory("Rdi", 4 * NthInt(entry, 0))),
                            dst)
          [] m \in CompiledStores ->
               IF ~NthIsInt(entry, 0) THEN Panicked(cs1)
               ELSE IF cs1.operands = <<>> THEN cs1
               ELSE EmitMov(FreeRegister(bound),
                            Memory("Rdi", 4 * NthInt(entry, 0)),
                            PoppedOperand(cs1))
          [] m \in CompiledPushes ->
               IF ~NthIsInt(entry, 0) THEN Panicked(cs1)
               ELSE PushOperand(cs1, Immediate(NthInt(entry, 0)))
          [] m \in {"IAdd", "ISub", "IMul"} -> EmitArithmetic(bound, AsmOf(m))
          [] m \in {"IDiv", "IRem"} -> EmitDiv(bound, m)
          [] m = "IInc" ->
               IF ~NthIsInt(entry, 0) \/ ~NthIsInt(entry, 1)
               THEN Panicked(cs1)
               ELSE Emit(bound,
                         Asm("addmem", Memory("Rdi", 4 * NthInt(entry, 0)),
                             Immediate(NthInt(entry, 1))))
          [] m = "Goto" ->
               IF ~NthIsInt(entry, 0) THEN Panicked(cs1)
               ELSE LET target == IncInstructionIndex(entry.pc,
                                                      NthInt(entry, 0))
                    IN  IF target \in DOMAIN cs1.labels
                        THEN Emit(cs1, AsmJmp(cs1.labels[target]))
                        ELSE cs1
          [] m \in CompiledGuards ->
               IF ~NthIsInt(entry, 0) THEN Panicked(cs1)
               ELSE EmitCondBranch(
                        [cs1 EXCEPT !.exit_pc = entry.pc.instruction_index
                                                + NthInt(entry, 0)],
                        m)
          [] m \in {"IfEq", "IfNe"} -> EmitUnaryBranch(cs1)
          [] OTHER -> cs1

RECURSIVE CompileEntries(_, _, _)
CompileEntries(cs, trace, k) ==
    IF k > Len(trace) \/ cs.panic THEN cs
    ELSE CompileEntries(CompileEntry(cs, trace[k]), trace, k + 1)

\* ops.finalize().unwrap(): the assembler resolves every jump when it
\* commits, and a jump to a dynamic label that was never bound in this
\* assembler is an error, which the unwrap turns into a panic.
BoundLabels(code) ==
    {code[i].label : i \in {j \in DOMAIN code : code[j].op = "label"}}

FinalizePanics(code) ==
    \E i \in DOMAIN code :
        code[i].op = "jmp" /\ code[i].label \notin BoundLabels(code)

\* The assembled trace: the code between prologue and abort_guard, and the
\* value `mov rax, exit_pc` loads before the epilogue.
NativeTrace(code, exit_pc) == [code |-> code, exit_pc |-> exit_pc]

\* compile that keeps only the trace it has just assembled.
CompileEvicting(jc, recording) ==
    LET cs == CompileEntries(
                  [registers |-> jc.registers, operands |-> jc.operands,
                   labels |-> jc.labels, code |-> <<>>, nlabels |-> 0,
                   exit_pc |-> 0, panic |-> FALSE],
                  recording.trace, 1)
        compiled == [registers |-> cs.registers,
                     operands |-> cs.operands,
                     labels |-> cs.labels,
                     traces |-> jc.traces]
    IN  IF cs.panic \/ FinalizePanics(cs.code)
        THEN [jit_cache |-> compiled, panic |-> TRUE]
        ELSE [jit_cache |->
                  [compiled EXCEPT !.traces =
                       (recording.start :> NativeTrace(cs.code, cs.exit_pc))],
              panic |-> FALSE]

\* JitCache::compile.  The register queue and the operand stack are the
\* cache's own and are not reset.
Compile(jc, recording) ==
    LET cs == CompileEntries(
                  [registers |-> jc.registers, operands |-> jc.operands,
                   labels |-> jc.labels, code |-> <<>>, nlabels |-> 0,
                   exit_pc |-> 0, panic |-> FALSE],
                  recording.trace, 1)
        compiled == [registers |-> cs.registers,
                     operands |-> cs.operands,
                     labels |-> cs.labels,
                     traces |-> jc.traces]
    IN  IF cs.panic \/ FinalizePanics(cs.code)
        THEN [jit_cache |-> compiled, panic |-> TRUE]
        ELSE [jit_cache |->
                  [compiled EXCEPT !.traces =
                       (recording.start :> NativeTrace(cs.code, cs.exit_pc))
                       @@ @],
              panic |-> FALSE]

-----------------------------------------------------------------------------
(* jit.rs: what an assembled trace does when JitCache::execute calls it    *)

\* A 64-bit register holds the quantity H * 2^32 + L with L a signed
\* 32-bit word.  The emitted instructions all work on Rq registers, so a
\* load reads two adjacent i32 slots of the locals buffer and a store
\* writes two.  The arithmetic below is exact as long as the low words'
\* product fits 32 bits; beyond that the evaluation stops with an overflow
\* error instead of giving a value.
Q(l, h) == [L |-> l, H |-> h, def |-> TRUE]

Unwritten == [L |-> 0, H |-> 0, def |-> FALSE]

MachineRegisters ==
    {InitialRegisters[i] : i \in DOMAIN InitialRegisters} \cup {"Rdx"}

\* mov r64, [rdi + 4*i]
LoadQ(locals, i) ==
    Q(locals[i], WrappingAdd(locals[i + 1], IF locals[i] < 0 THEN 1 ELSE 0))

\* mov [rdi + 4*i], r64
StoreQ(locals, i, q) ==
    [locals EXCEPT ![i] = q.L,
                   ![i + 1] = WrappingAdd(q.H, IF q.L < 0 THEN -1 ELSE 0)]

AddQ(a, b) ==
    LET lo == WrappingAdd(a.L, b.L)
        carry == IF a.L >= 0 /\ b.L >= 0 /\ lo < 0 THEN 1
                 ELSE IF a.L < 0 /\ b.L < 0 /\ lo >= 0 THEN -1
                 ELSE 0
    IN  Q(lo, WrappingAdd(WrappingAdd(a.H, b.H), carry))

NegQ(a) == IF a.L = MinI32 THEN Q(MinI32, 1 - a.H) ELSE Q(-a.L, -a.H)

SubQ(a, b) == AddQ(a, NegQ(b))

MulQ(a, b) == Q(a.L * b.L, a.L * b.H + a.H * b.L)

\* Signed comparison, as cmp sets the flags for jg, jge, jle and je.
CmpQ(a, b) ==
    IF a.H < b.H \/ (a.H = b.H /\ a.L < b.L) THEN -1
    ELSE IF a = b THEN 0 ELSE 1

Taken(cc, flag) ==
    CASE cc = "jg" -> flag = 1
      [] cc = "jge" -> flag >= 0
      [] cc = "jle" -> flag <= 0
      [] cc = "je" -> flag = 0
      [] OTHER -> FALSE

Slot(o) == o.imm \div 4

\* Reading an operand is undefined when it is a register the trace has not
\* written or memory outside the locals buffer.
Undefined(ms, o, width) ==
    \/ o.kind = "Register" /\ ~ms.regs[o.reg].def
    \/ o.kind = "Memory"
       /\ (o.imm < 0 \/ Slot(o) + width - 1 \notin DOMAIN ms.locals)

ReadOperand(ms, o) ==
    CASE o.kind = "Register" -> ms.regs[o.reg]
      [] o.kind = "Immediate" -> Q(o.imm, 0)
      [] o.kind = "Memory" -> LoadQ(ms.locals, Slot(o))

Stopped(ms, how) == [ms EXCEPT !.status = how]

Advance(ms) == [ms EXCEPT !.ip = @ + 1]

LabelPosition(code, l) ==
    CHOOSE i \in DOMAIN code : code[i].op = "label" /\ code[i].label = l

\* `div r64` with rdx = 0: rax and the divisor are unsigned.  Quotient and
\* remainder are computed for operands below 2^31; a zero divisor raises
\* the divide error, which ends the process.
ExecDiv(ms, i) ==
    LET divisor == ms.regs[i.dst.reg]
        dividend == ms.regs["Rax"]
    IN  IF ~divisor.def \/ ~dividend.def THEN Stopped(ms, "undefined")
        ELSE IF divisor.L = 0 /\ divisor.H = 0 THEN Stopped(ms, "fault")
        ELSE IF divisor.H # 0 \/ divisor.L < 0
                \/ dividend.H # 0 \/ dividend.L < 0
        THEN Stopped(ms, "beyond")
        ELSE Advance([ms EXCEPT
                 !.regs["Rax"] = Q(dividend.L \div divisor.L, 0),
                 !.regs["Rdx"] = Q(dividend.L % divisor.L, 0)])

ExecMov(ms, i) ==
    IF Undefined(ms, i.src, 2) THEN Stopped(ms, "undefined")
    ELSE IF i.dst.kind = "Register"
    THEN Advance([ms EXCEPT !.regs[i.dst.reg] = ReadOperand(ms, i.src)])
    ELSE IF i.src.kind = "Register"
    THEN IF Undefined(ms, i.dst, 2) THEN Stopped(ms, "undefined")
         ELSE Advance([ms EXCEPT !.locals =
                           StoreQ(@, Slot(i.dst), ms.regs[i.src.reg])])
    ELSE IF Undefined(ms, i.dst, 1) THEN Stopped(ms, "undefined")
         ELSE Advance([ms EXCEPT !.locals[Slot(i.dst)] = i.src.imm])

ExecArith(ms, i) ==
    IF Undefined(ms, i.dst, 2) \/ Undefined(ms, i.src, 2)
    THEN Stopped(ms, "undefined")
    ELSE LET a == ms.regs[i.dst.reg]
             b == ReadOperand(ms, i.src)
         IN  Advance([ms EXCEPT !.regs[i.dst.reg] =
                          CASE i.op = "add" -> AddQ(a, b)
                            [] i.op = "sub" -> SubQ(a, b)
                            [] i.op = "imul" -> MulQ(a, b)])

\* One instruction of the trace.
ExecAsm(ms, code) ==
    LET i == code[ms.ip]
    IN  CASE i.op = "label" -> Advance(ms)
          [] i.op = "mov" -> ExecMov(ms, i)
          [] i.op \in {"add", "sub", "imul"} -> ExecArith(ms, i)
          [] i.op = "addmem" ->
               IF Undefined(ms, i.dst, 1) THEN Stopped(ms, "undefined")
               ELSE Advance([ms EXCEPT !.locals[Slot(i.dst)] =
                                 WrappingAdd(@, i.src.imm)])
          [] i.op = "cmp" ->
               IF Undefined(ms, i.dst, 2) \/ Undefined(ms, i.src, 2)
               THEN Stopped(ms, "undefined")
               ELSE Advance([ms EXCEPT !.flag =
                                 CmpQ(ReadOperand(ms, i.dst),
                                      ReadOperand(ms, i.src))])
          [] i.op = "jcc" ->
               IF Taken(i.cc, ms.flag) THEN Stopped(ms, "exit")
               ELSE Advance(ms)
          [] i.op = "jmp" ->
               [ms EXCEPT !.ip = LabelPosition(code, i.label)]
          [] i.op = "div" -> ExecDiv(ms, i)

\* Largest number of instructions a native trace runs in one call.
MaxNativeSteps == 40

RECURSIVE RunNative(_, _, _)
RunNative(ms, code, fuel) ==
    IF ms.status # "run" THEN ms
    ELSE IF ms.ip > Len(code) THEN Stopped(ms, "exit")
    ELSE IF fuel = 0 THEN Stopped(ms, "spin")
    ELSE RunNative(ExecAsm(ms, code), code, fuel - 1)

\* execute that hands the native code a zeroed buffer without copying the
\* frame's locals into it.
ExecuteWithoutFlatten(jc, pc, fs, prog) ==
    IF ~HasNativeTrace(jc, pc)
    THEN [frames |-> fs, ret |-> pc.instruction_index, outcome |-> "exit"]
    ELSE
    LET frame == Top(fs)
        trace == jc.traces[pc]
        size == prog.methods[frame.pc.method_index].max_locals * 8
        locals == [i \in 0..(size - 1) |-> 0]
        final == RunNative([ip |-> 1,
                            regs |-> [r \in MachineRegisters |-> Unwritten],
                            locals |-> locals, flag |-> 0, status |-> "run"],
                           trace.code, MaxNativeSteps)
    IN  IF \E key \in DOMAIN frame.locals : key >= size
        THEN [frames |-> fs, ret |-> 0, outcome |-> "panic"]
        ELSE IF final.status # "exit"
        THEN [frames |-> fs, ret |-> 0, outcome |-> final.status]
        ELSE [frames |->
                  SetTop(fs, [frame EXCEPT
                      !.locals = [i \in 0..(size - 1) |->
                                      VInt(final.locals[i])],
                      !.pc.instruction_index = trace.exit_pc]),
              ret |-> trace.exit_pc,
              outcome |-> "exit"]

\* JitCache::execute on the current frame.  `outcome` is "exit" when the
\* call returns, "panic" when a local's index is outside the buffer, and
\* otherwise how the native code went wrong.
\* execute sending a frame without a native trace back to index 0.
ExecuteRewinds(jc, pc, fs, prog) ==
    IF ~HasNativeTrace(jc, pc)
    THEN [frames |-> SetTop(fs, [Top(fs) EXCEPT !.pc.instruction_index = 0]),
          ret |-> 0, outcome |-> "exit"]
    ELSE
    LET frame == Top(fs)
        trace == jc.traces[pc]
        size == prog.methods[frame.pc.method_index].max_locals * 8
        locals == [i \in 0..(size - 1) |->
                       IF i \in DOMAIN frame.locals THEN frame.locals[i].v
                       ELSE 0]
        final == RunNative([ip |-> 1,
                            regs |-> [r \in MachineRegisters |-> Unwritten],
                            locals |-> locals, flag |-> 0, status |-> "run"],
                           trace.code, MaxNativeSteps)
    IN  IF \E key \in DOMAIN frame.locals : key >= size
        THEN [frames |-> fs, ret |-> 0, outcome |-> "panic"]
        ELSE IF final.status # "exit"
        THEN [frames |-> fs, ret |-> 0, outcome |-> final.status]
        ELSE [frames |->
                  SetTop(fs, [frame EXCEPT
                      !.locals = [i \in 0..(size - 1) |->
                                      VInt(final.locals[i])],
                      !.pc.instruction_index = trace.exit_pc]),
              ret |-> trace.exit_pc,
              outcome |-> "exit"]

\* execute writing back only the locals the frame had.
ExecuteKeepsKeys(jc, pc, fs, prog) ==
    IF ~HasNativeTrace(jc, pc)
    THEN [frames |-> fs, ret |-> pc.instruction_index, outcome |-> "exit"]
    ELSE
    LET frame == Top(fs)
        trace == jc.traces[pc]
        size == prog.methods[frame.pc.method_index].max_locals * 8
        locals == [i \in 0..(size - 1) |->
                       IF i \in DOMAIN frame.locals THEN frame.locals[i].v
                       ELSE 0]
        final == RunNative([ip |-> 1,
                            regs |-> [r \in MachineRegisters |-> Unwritten],
                            locals |-> locals, flag |-> 0, status |-> "run"],
                           trace.code, MaxNativeSteps)
    IN  IF \E key \in DOMAIN frame.locals : key >= size
        THEN [frames |-> fs, ret |-> 0, outcome |-> "panic"]
        ELSE IF final.status # "exit"
        THEN [frames |-> fs, ret |-> 0, outcome |-> final.status]
        ELSE [frames |->
                  SetTop(fs, [frame EXCEPT
                      !.locals = [i \in DOMAIN frame.locals |->
                                      VInt(final.locals[i])],
                      !.pc.instruction_index = trace.exit_pc]),
              ret |-> trace.exit_pc,
              outcome |-> "exit"]

Execute(jc, pc, fs, prog) ==
    IF ~HasNativeTrace(jc, pc)
    THEN [frames |-> fs, ret |-> pc.instruction_index, outcome |-> "exit"]
    ELSE
    LET frame == Top(fs)
        trace == jc.traces[pc]
        size == prog.methods[frame.pc.method_index].max_locals * 8
        locals == [i \in 0..(size - 1) |->
                       IF i \in DOMAIN frame.locals THEN frame.locals[i].v
                       ELSE 0]
        final == RunNative([ip |-> 1,
                            regs |-> [r \in MachineRegisters |-> Unwritten],
                            locals |-> locals, flag |-> 0, status |-> "run"],
                           trace.code, MaxNativeSteps)
    IN  IF \E key \in DOMAIN frame.locals : key >= size
        THEN [frames |-> fs, ret |-> 0, outcome |-> "panic"]
        ELSE IF final.status # "exit"
        THEN [frames |-> fs, ret |-> 0, outcome |-> final.status]
        ELSE [frames |->
                  SetTop(fs, [frame EXCEPT
                      !.locals = [i \in 0..(size - 1) |->
                                      VInt(final.locals[i])],
                      !.pc.instruction_index = trace.exit_pc]),
              ret |-> trace.exit_pc,
              outcome |-> "exit"]

-----------------------------------------------------------------------------
(* The programs run: class files with a main that calls one static method  *)
(* on the argument n and prints the result, laid out as javac lays out     *)
(* support/Factorial.class (program.rs, can_build_program).                *)

\* main: bipush n; invokestatic #7; istore_1; getstatic #13; iload_1;
\*       invokevirtual #19; return
MainCode(n) == <<16, n, 184, 0, 7, 60, 178, 0, 13, 27, 182, 0, 19, 177>>

InitCode == <<42, 183, 0, 1, 177>>

\* fact(n): r = 1; for (i = 2; i <= n; i++) r = r * i; return r
FactorialCode ==
    <<4, 60, 5, 61, 28, 26, 163, 0, 13, 27, 28, 104, 60, 132, 2, 1, 167, 255,
      244, 27, 172>>

\* f(n): i = 0; do { i++; } while (i < n); return i
\*   0 iconst_0  1 istore_1  2 iinc 1 1  5 iload_1  6 iload_0
\*   7 if_icmplt 2  10 iload_1  11 ireturn
DoWhileCode == <<3, 60, 132, 1, 1, 27, 26, 161, 255, 251, 27, 172>>

\* f(n): i = 0; while (n != 0) { i++; n = n - 1; } return i, with the test's
\* operand loaded before the loop and at the end of the body, so that the
\* back edge lands on the ifeq.
\*   0 iconst_0  1 istore_1  2 iload_0  3 ifeq 17  6 iinc 1 1  9 iload_0
\*   10 iconst_1  11 isub  12 istore_0  13 iload_0  14 goto 3  17 iload_1
\*   18 ireturn
CountDownCode ==
    <<3, 60, 26, 153, 0, 14, 132, 1, 1, 26, 4, 100, 59, 26, 167, 255, 245, 27,
      172>>

ConstantPool ==
    (5 :> ConstantUtf8("<init>")) @@ (7 :> ConstantMethodRef(10))
    @@ (10 :> ConstantNameAndType(11)) @@ (11 :> ConstantUtf8("f"))
    @@ (27 :> ConstantUtf8("main"))

ClassFile(n, max_locals, code) ==
    [methods |-> (27 :> Method(<<"List">>, 2, MainCode(n)))
                 @@ (5 :> Method(<<>>, 1, InitCode))
                 @@ (11 :> Method(<<"Int">>, max_locals, code)),
     constant_pool |-> ConstantPool]

Factorial(n) == ClassFile(n, 3, FactorialCode)
DoWhile(n) == ClassFile(n, 2, DoWhileCode)
CountDown(n) == ClassFile(n, 2, CountDownCode)

\* f(n): do { n = n - 1; } while (n > 1); return n, the constant pushed
\* with sipush.
\*   0 iload_0  1 sipush 1  4 isub  5 istore_0  6 iload_0  7 sipush 1
\*   10 if_icmpgt 0  13 iload_0  14 ireturn
SiPushLoopCode ==
    <<26, 17, 0, 1, 100, 59, 26, 17, 0, 1, 163, 255, 246, 26, 172>>

SiPushLoop(n) == ClassFile(n, 1, SiPushLoopCode)

\* f(n): do { n = n - 1; } while (n != 0); return n
\*   0 iload_0  1 sipush 1  4 isub  5 istore_0  6 iload_0  7 ifne 0
\*   10 iload_0  11 ireturn
UntilZeroCode == <<26, 17, 0, 1, 100, 59, 26, 154, 255, 249, 26, 172>>

UntilZero(n) == ClassFile(n, 1, UntilZeroCode)

\* f(n): return n == 0 ? 0 : f(n - 1)
\*   0 iload_0  1 ifne 6  4 iconst_0  5 ireturn  6 iload_0  7 iconst_1
\*   8 isub  9 invokestatic #7  12 ireturn
RecursiveCode == <<26, 154, 0, 5, 3, 172, 26, 4, 100, 184, 0, 7, 172>>

Recursive(n) == ClassFile(n, 1, RecursiveCode)

Programs ==
    {Factorial(n) : n \in 0..MaxArg} \cup {DoWhile(n) : n \in 0..MaxArg}
    \cup {CountDown(n) : n \in 0..MaxArg}
    \cup {Recursive(n) : n \in 0..MaxArg}

-----------------------------------------------------------------------------
(* runtime.rs: Runtime::new and Runtime::run                               *)

\* Largest number of iterations of the run loop in a behaviour.
MaxSteps == 120

NoCall == [op |-> "none", pc |-> NewPC, start |-> NewPC,
           inst |-> Instruction("NOP", <<>>), before |-> 0, ret |-> FALSE]

\* Runtime::new: one frame at the entry point, empty stack and locals.
RuntimeNew(prog) ==
    /\ program = prog
    /\ frames = <<Frame(PC(EntryPoint(prog), 0), <<>>, NoLocals)>>
    /\ return_values = <<>>
    /\ status = "running"
    /\ profiler = ProfilerNew
    /\ recorder = RecorderNew
    /\ jit_cache = JitCacheNew

Init ==
    /\ \E prog \in Programs : RuntimeNew(prog)
    /\ call = NoCall
    /\ steps = 0

\* The pc the next iteration of the run loop works with: the current
\* frame's pc once fetch has advanced it past the instruction.
FetchedPC == Top(Fetch(frames, program).frames).pc

\* One iteration of the loop of Runtime::run, the parts in source order:
\* fetch, count_entry, init when hot, record when recording, execute when
\* a native trace exists, eval.
StepFetch == Fetch(frames, program)

StepProfiler == CountEntry(profiler, FetchedPC)

StepInit ==
    IF IsHot(StepProfiler, FetchedPC)
    THEN RecorderInit(recorder, FetchedPC, FetchedPC)
    ELSE recorder

StepRecord ==
    IF IsRecording(StepInit)
    THEN Record(StepInit, FetchedPC, StepFetch.inst)
    ELSE [recorder |-> StepInit, panic |-> FALSE]

StepExecute ==
    IF HasNativeTrace(jit_cache, FetchedPC)
    THEN Execute(jit_cache, FetchedPC, StepFetch.frames, program)
    ELSE [frames |-> StepFetch.frames, ret |-> 0, outcome |-> "exit"]

StepEval == Eval(StepExecute.frames, return_values, StepFetch.inst, program)

\* A run loop that does not notice that the last frame is gone.
RunStepPastLastFrame ==
    /\ status = "running"
    /\ frames # <<>>
    /\ steps < MaxSteps
    /\ steps' = steps + 1
    /\ UNCHANGED <<program, jit_cache, call>>
    /\ IF StepFetch.panic
       THEN /\ status' = "panic"
            /\ UNCHANGED <<frames, return_values, profiler, recorder>>
       ELSE /\ profiler' = StepProfiler
            /\ recorder' = StepRecord.recorder
            /\ IF StepRecord.panic
               THEN /\ status' = "panic"
                    /\ frames' = StepFetch.frames
                    /\ UNCHANGED return_values
               ELSE IF StepExecute.outcome # "exit"
               THEN /\ status' = StepExecute.outcome
                    /\ frames' = StepFetch.frames
                    /\ UNCHANGED return_values
               ELSE /\ frames' = StepEval.frames
                    /\ return_values' = StepEval.return_values
                    /\ status' = IF StepEval.result # "ok"
                                 THEN StepEval.result
                                 ELSE "running"

RunStep ==
    /\ status = "running"
    /\ frames # <<>>
    /\ steps < MaxSteps
    /\ steps' = steps + 1
    /\ UNCHANGED <<program, jit_cache, call>>
    /\ IF StepFetch.panic
       THEN /\ status' = "panic"
            /\ UNCHANGED <<frames, return_values, profiler, recorder>>
       ELSE /\ profiler' = StepProfiler
            /\ recorder' = StepRecord.recorder
            /\ IF StepRecord.panic
               THEN /\ status' = "panic"
                    /\ frames' = StepFetch.frames
                    /\ UNCHANGED return_values
               ELSE IF StepExecute.outcome # "exit"
               THEN /\ status' = StepExecute.outcome
                    /\ frames' = StepFetch.frames
                    /\ UNCHANGED return_values
               ELSE /\ frames' = StepEval.frames
                    /\ return_values' = StepEval.return_values
                    /\ status' = IF StepEval.result # "ok"
                                 THEN StepEval.result
                                 ELSE IF StepEval.frames = <<>> THEN "ok"
                                 ELSE "running"

Next == RunStep

Spec == Init /\ [][Next]_vars

-----------------------------------------------------------------------------
(* The profiler on its own: any sequence of count_entry and count_exit     *)
(* calls on a fresh Profiler.  `call` keeps the last call, the profiler as *)
(* it was before it and what is_hot answered for the call's pc before it.  *)

ProfilerPCs == {PC(m, i) : m \in 0..1, i \in 0..1}

Idle(prog) ==
    /\ program = prog
    /\ frames = <<>>
    /\ return_values = <<>>
    /\ status = "running"
    /\ profiler = ProfilerNew
    /\ recorder = RecorderNew
    /\ jit_cache = JitCacheNew
    /\ call = NoCall
    /\ steps = 0

InitProfiler == Idle(Factorial(0))

ProfilerCountEntry(pc) ==
    /\ steps < MaxCalls
    /\ steps' = steps + 1
    /\ profiler' = CountEntry(profiler, pc)
    /\ call' = [NoCall EXCEPT !.op = "count_entry", !.pc = pc,
                              !.before = profiler,
                              !.ret = IsHot(profiler, pc)]
    /\ UNCHANGED <<program, frames, return_values, status, recorder,
                   jit_cache>>

ProfilerCountExit(pc) ==
    /\ steps < MaxCalls
    /\ steps' = steps + 1
    /\ profiler' = CountExit(profiler, pc)
    /\ call' = [NoCall EXCEPT !.op = "count_exit", !.pc = pc,
                              !.before = profiler,
                              !.ret = IsHot(profiler, pc)]
    /\ UNCHANGED <<program, frames, return_values, status, recorder,
                   jit_cache>>

NextProfiler ==
    \/ \E pc \in ProfilerPCs : ProfilerCountEntry(pc)
    \/ \E pc \in ProfilerPCs : ProfilerCountExit(pc)

SpecProfiler == InitProfiler /\ [][NextProfiler]_vars

-----------------------------------------------------------------------------
(* The recorder on its own: any sequence of init, record,                  *)
(* is_done_recording and recording calls on a fresh Recorder.  `call`      *)
(* keeps the last call, its arguments, the recorder as it was before it    *)
(* and the value returned.  A panic ends the behaviour.                    *)

RecorderPCs == {PC(0, 3), PC(0, 6), PC(1, 3)}

RecorderInstructions ==
    {Instruction("ILoad1", <<>>),
     Instruction("IfICmpGt", <<VInt(3)>>),
     Instruction("IfICmpGt", <<VInt(-3)>>),
     Instruction("IfEq", <<VInt(3)>>),
     Instruction("IfLt", <<VInt(3)>>),
     Instruction("Goto", <<VInt(-3)>>),
     Instruction("Goto", <<VInt(3)>>),
     Instruction("IReturn", <<>>),
     Instruction("InvokeStatic", <<VInt(0)>>)}

InitRecorder == Idle(Factorial(0))

RecorderCall(op, pc, start, inst, after, ret, panic) ==
    /\ status = "running"
    /\ steps < MaxRecorderCalls
    /\ steps' = steps + 1
    /\ recorder' = after
    /\ status' = IF panic THEN "panic" ELSE "running"
    /\ call' = [op |-> op, pc |-> pc, start |-> start, inst |-> inst,
                before |-> recorder, ret |-> ret]
    /\ UNCHANGED <<program, frames, return_values, profiler, jit_cache>>

CallInit(loop_header, start) ==
    RecorderCall("init", loop_header, start, NoCall.inst,
                 RecorderInit(recorder, loop_header, start), FALSE, FALSE)

CallRecord(pc, inst) ==
    RecorderCall("record", pc, NewPC, inst,
                 Record(recorder, pc, inst).recorder, FALSE,
                 Record(recorder, pc, inst).panic)

CallIsDoneRecording(pc) ==
    RecorderCall("is_done_recording", pc, NewPC, NoCall.inst,
                 IsDoneRecording(recorder, pc).recorder,
                 IsDoneRecording(recorder, pc).ret, FALSE)

CallRecording ==
    RecorderCall("recording", NewPC, NewPC, NoCall.inst,
                 RecorderRecording(recorder).recorder,
                 RecorderRecording(recorder).ret, FALSE)

NextRecorder ==
    \/ \E loop_header, start \in RecorderPCs : CallInit(loop_header, start)
    \/ \E pc \in RecorderPCs, inst \in RecorderInstructions :
           CallRecord(pc, inst)
    \/ \E pc \in RecorderPCs : CallIsDoneRecording(pc)
    \/ CallRecording

SpecRecorder == InitRecorder /\ [][NextRecorder]_vars

-----------------------------------------------------------------------------
(* The run loop with the bridge from recorder to JIT that the design       *)
(* describes and Runtime::run leaves out: when execution is back at the    *)
(* loop header with a recording in progress, the recording is finalized    *)
(* and compiled.  The step itself stays Runtime::run's.                    *)

FinalizeRecording ==
    /\ status = "running"
    /\ frames # <<>>
    /\ ~StepFetch.panic
    /\ IsRecording(recorder)
    /\ IsDoneRecording(recorder, FetchedPC).ret
    /\ LET finalized ==
               RecorderRecording(IsDoneRecording(recorder, FetchedPC).recorder)
           compiled == Compile(jit_cache, finalized.ret)
       IN  /\ recorder' = finalized.recorder
           /\ jit_cache' = compiled.jit_cache
           /\ status' = IF compiled.panic THEN "panic" ELSE status
           /\ call' = [NoCall EXCEPT !.op = "compile",
                                     !.start = finalized.ret.start,
                                     !.before = recorder]
    /\ UNCHANGED <<program, frames, return_values, profiler, steps>>

NextWarm == RunStep \/ FinalizeRecording

SpecWarm == Init /\ [][NextWarm]_vars

-----------------------------------------------------------------------------
(* The interpreter on its own: Runtime::eval applied to instructions as    *)
(* fetch builds them, on a runtime whose frames and return values are      *)
(* given.  `call` keeps the instruction, the frames and return values      *)
(* before the call and how eval ended.  An Err or a panic ends the         *)
(* behaviour.                                                              *)

\* Largest number of eval calls in a behaviour of this specification.
MaxEvalCalls == 2

EvalStacks ==
    {<<>>, <<VInt(7)>>, <<VInt(7), VInt(2)>>, <<VLong(4), VLong(4)>>,
     <<VDouble(1)>>, <<VInt(1), VLong(4), VInt(7)>>, <<VInt(-7), VInt(2)>>}

\* The Factorial class with two more static methods, g of descriptor (JI)D
\* and h of descriptor (IJI)V.
EvalProgram ==
    [Factorial(0) EXCEPT
         !.methods = @ @@ (13 :> Method(<<"Long", "Int">>, 3, <<14, 175>>))
                       @@ (15 :> Method(<<"Int", "Long", "Int">>, 4, <<177>>))]

EvalLocals == {NoLocals, (1 :> VInt(3))}

\* The frame of f alone, or f called from main.
EvalFrames ==
    {<<Frame(PC(11, 4), stack, locals)>> :
         stack \in EvalStacks, locals \in EvalLocals}
    \cup {<<Frame(PC(27, 5), <<VInt(1)>>, NoLocals),
            Frame(PC(11, 4), stack, NoLocals)>> : stack \in EvalStacks}

EvalInstructions ==
    {Instruction(m, <<>>) :
         m \in {"IAdd", "ISub", "IMul", "IDiv", "IRem", "LAdd", "LCmp",
                "DCmpG", "IStore1", "LStore2", "FStore0", "DStore3",
                "ILoad1", "Iconst1", "I2L", "IReturn", "LReturn", "FReturn",
                "DReturn", "Return"}}
    \cup {Instruction("IStore", <<VInt(2)>>),
          Instruction("InvokeVirtual", <<VInt(19)>>),
          Instruction("IfICmpGt", <<VInt(5)>>),
          Instruction("IfEq", <<VInt(5)>>),
          Instruction("InvokeStatic", <<VInt(11)>>),
          Instruction("InvokeStatic", <<VInt(13)>>),
          Instruction("InvokeStatic", <<VInt(15)>>),
          Instruction("IInc", <<VInt(1), VInt(2)>>),
          Instruction("IInc", <<VInt(0), VInt(255)>>)}

InitEval ==
    /\ program = EvalProgram
    /\ frames \in EvalFrames
    /\ return_values \in {<<>>, <<VInt(9)>>}
    /\ status = "running"
    /\ profiler = ProfilerNew
    /\ recorder = RecorderNew
    /\ jit_cache = JitCacheNew
    /\ call = NoCall
    /\ steps = 0

EvalCall(inst) ==
    /\ status = "running"
    /\ steps < MaxEvalCalls
    /\ steps' = steps + 1
    /\ LET evaluated == Eval(frames, return_values, inst, program)
       IN  /\ frames' = evaluated.frames
           /\ return_values' = evaluated.return_values
           /\ status' = IF evaluated.result = "ok" THEN "running"
                        ELSE evaluated.result
           /\ call' = [NoCall EXCEPT
                           !.op = "eval", !.inst = inst,
                           !.before = [frames |-> frames,
                                       return_values |-> return_values],
                           !.ret = evaluated.result]
    /\ UNCHANGED <<program, profiler, recorder, jit_cache>>

NextEval == \E inst \in EvalInstructions : EvalCall(inst)

SpecEval == InitEval /\ [][NextEval]_vars

-----------------------------------------------------------------------------
(* The JIT cache on its own: any sequence of compile and execute calls on   *)
(* a fresh JitCache.  The recordings compiled are the ones a Recorder        *)
(* returns after init, one record call per instruction of a path through    *)
(* the method, each with the pc fetch leaves, and recording.  `call` keeps   *)
(* the last call, the cache and the frame it was given and, for execute,    *)
(* the value returned.  A panic or a fault of the native code ends the      *)
(* behaviour.                                                               *)

\* Largest number of calls in a behaviour of this specification.
MaxJitCalls == 3

\* What fetch yields at index i of method m: the instruction and the pc
\* after it.
Fetched(prog, m, i) == Fetch(<<Frame(PC(m, i), <<>>, NoLocals)>>, prog)

RECURSIVE RecordPath(_, _, _, _)
RecordPath(r, prog, m, path) ==
    IF path = <<>> THEN r
    ELSE LET fetched == Fetched(prog, m, Head(path))
         IN  RecordPath(Record(r, Top(fetched.frames).pc,
                               fetched.inst).recorder,
                        prog, m, Tail(path))

\* The recording of a path whose first instruction is the loop header.
RecordingOf(prog, m, path) ==
    LET start == Top(Fetched(prog, m, Head(path)).frames).pc
    IN  RecorderRecording(
            RecordPath(RecorderInit(RecorderNew, start, start), prog, m,
                       path)).ret

\* A recording finalized before anything was recorded.
EmptyRecording(start) ==
    RecorderRecording(RecorderInit(RecorderNew, start, start)).ret

JitPrograms == {Factorial(0), SiPushLoop(0), DoWhile(0), UntilZero(0)}

\* One iteration of the loop of the program's method f, and the start of
\* an empty recording in f.
LoopPath(prog) ==
    CASE prog = Factorial(0) -> <<4, 5, 6, 9, 10, 11, 12, 13, 16>>
      [] prog = SiPushLoop(0) -> <<0, 1, 4, 5, 6, 7, 10>>
      [] prog = DoWhile(0) -> <<2, 5, 6, 7>>
      [] prog = UntilZero(0) -> <<0, 1, 4, 5, 6, 7>>

JitRecordings(prog) ==
    {RecordingOf(prog, 11, LoopPath(prog)),
     RecordingOf(prog, 11, Tail(LoopPath(prog))),
     EmptyRecording(PC(11, 0))}

JitPCs(prog) ==
    {recording.start : recording \in JitRecordings(prog)} \cup {PC(11, 3)}

JitLocals(prog) ==
    IF prog = Factorial(0)
    THEN {(0 :> VInt(3)) @@ (1 :> VInt(2)) @@ (2 :> VInt(2)),
          (0 :> VInt(5)) @@ (1 :> VInt(1)),
          (0 :> VInt(4)) @@ (1 :> VLong(1)) @@ (2 :> VInt(5))}
    ELSE {(0 :> VInt(5)), (0 :> VInt(1)), NoLocals}

InitJit ==
    /\ program \in JitPrograms
    /\ frames = <<>>
    /\ return_values = <<>>
    /\ status = "running"
    /\ profiler = ProfilerNew
    /\ recorder = RecorderNew
    /\ jit_cache = JitCacheNew
    /\ call = NoCall
    /\ steps = 0

JitCompile(recording) ==
    /\ status = "running"
    /\ steps < MaxJitCalls
    /\ steps' = steps + 1
    /\ LET compiled == Compile(jit_cache, recording)
       IN  /\ jit_cache' = compiled.jit_cache
           /\ status' = IF compiled.panic THEN "panic" ELSE "running"
    /\ call' = [NoCall EXCEPT
                    !.op = "compile", !.start = recording.start,
                    !.before = [jit_cache |-> jit_cache, frames |-> frames]]
    /\ UNCHANGED <<program, frames, return_values, profiler, recorder>>

JitStacks == {<<>>, <<VInt(7)>>}

JitExecute(pc, stack, locals) ==
    /\ status = "running"
    /\ steps < MaxJitCalls
    /\ steps' = steps + 1
    /\ LET frame == Frame(pc, stack, locals)
           executed == Execute(jit_cache, pc, <<frame>>, program)
       IN  /\ frames' = executed.frames
           /\ status' = IF executed.outcome = "exit" THEN "running"
                        ELSE executed.outcome
           /\ call' = [NoCall EXCEPT
                           !.op = "execute", !.pc = pc,
                           !.before = [jit_cache |-> jit_cache,
                                       frames |-> <<frame>>],
                           !.ret = executed.ret]
    /\ UNCHANGED <<program, return_values, profiler, recorder, jit_cache>>

NextJit ==
    \/ \E recording \in JitRecordings(program) : JitCompile(recording)
    \/ \E pc \in JitPCs(program), stack \in JitStacks,
             locals \in JitLocals(program) :
           JitExecute(pc, stack, locals)

SpecJit == InitJit /\ [][NextJit]_vars

-----------------------------------------------------------------------------
(* The loop of JitCache::compile, one recorded entry at a time.  The       *)
(* register queue and the operand stack are fields of the cache and live   *)
(* on from one compile call to the next, so any sequence of entries is     *)
(* what a sequence of compile calls lowers.                                *)

MaxLowered == 7

LoweredEntries ==
    {RecordEntry(PC(11, 4), inst) :
         inst \in {Instruction("ILoad0", <<VInt(0)>>),
                   Instruction("BiPush", <<VInt(5)>>),
                   Instruction("IAdd", <<>>),
                   Instruction("IDiv", <<>>),
                   Instruction("IRem", <<>>),
                   Instruction("IStore0", <<VInt(0)>>),
                   Instruction("IfICmpGt", <<VInt(-10)>>),
                   Instruction("IfNe", <<VInt(-7)>>)}}

InitLower ==
    /\ program = Factorial(0)
    /\ frames = <<>>
    /\ return_values = <<>>
    /\ status = "running"
    /\ profiler = ProfilerNew
    /\ recorder = RecorderNew
    /\ jit_cache = JitCacheNew
    /\ call = NoCall
    /\ steps = 0

LowerEntry(entry) ==
    /\ status = "running"
    /\ steps < MaxLowered
    /\ steps' = steps + 1
    /\ LET cs == CompileEntry(
                     [registers |-> jit_cache.registers,
                      operands |-> jit_cache.operands,
                      labels |-> jit_cache.labels, code |-> <<>>,
                      nlabels |-> steps, exit_pc |-> 0, panic |-> FALSE],
                     entry)
       IN  /\ jit_cache' = [jit_cache EXCEPT !.registers = cs.registers,
                                             !.operands = cs.operands,
                                             !.labels = cs.labels]
           /\ status' = IF cs.panic THEN "panic" ELSE "running"
    /\ call' = [NoCall EXCEPT
                    !.op = "lower", !.pc = entry.pc, !.inst = entry.inst,
                    !.before = [jit_cache |-> jit_cache, frames |-> frames]]
    /\ UNCHANGED <<program, frames, return_values, profiler, recorder>>

NextLower == \E entry \in LoweredEntries : LowerEntry(entry)

SpecLower == InitLower /\ [][NextLower]_vars

-----------------------------------------------------------------------------
(* The run loop on hand-laid methods: a branch or goto after four nops,    *)
(* with every opcode fetch decodes an offset for and offsets in both       *)
(* directions, and an iinc followed by a bipush, with immediate bytes up   *)
(* to 0xFF.  The run starts in the method f with a given operand stack     *)
(* and locals.                                                             *)

\* The two bytes of a 16-bit two's complement offset, high byte first.
HighByte(o) == ((o + 65536) % 65536) \div 256

LowByte(o) == ((o + 65536) % 65536) % 256

\* f: nop; nop; nop; nop; <op> <o>; nop; nop; nop; nop; nop; return
BranchCode(op, o) ==
    <<0, 0, 0, 0, op, HighByte(o), LowByte(o), 0, 0, 0, 0, 0, 177>>

\* ifeq .. if_icmple, and goto.
BranchOpcodes == (153..164) \cup {167}

BranchOffsets == {-4, -1, 3, 5, 8}

\* f: iinc <index> <delta>; bipush <delta>; return
IIncCode(index, delta) == <<132, index, delta, 16, delta, 177>>

ImmediateBytes == {0, 1, 127, 128, 255}

BranchPrograms ==
    {ClassFile(0, 1, BranchCode(op, o)) :
         op \in BranchOpcodes, o \in BranchOffsets}

IIncPrograms ==
    {ClassFile(0, 1, IIncCode(index, delta)) :
         index \in {0, 1}, delta \in ImmediateBytes}

StepStacks ==
    {<<VInt(a), VInt(b)>> : a, b \in {-1, 0, 1}}

StepLocals ==
    {NoLocals, (0 :> VInt(3)), (0 :> VInt(-5)), (0 :> VInt(MaxI32)),
     (0 :> VInt(MaxI32 - 200)) @@ (1 :> VInt(7))}

InitStep ==
    /\ \/ /\ program \in BranchPrograms
          /\ \E stack \in StepStacks :
                 frames = <<Frame(PC(11, 0), stack, NoLocals)>>
       \/ /\ program \in IIncPrograms
          /\ \E locals \in StepLocals :
                 frames = <<Frame(PC(11, 0), <<>>, locals)>>
    /\ return_values = <<>>
    /\ status = "running"
    /\ profiler = ProfilerNew
    /\ recorder = RecorderNew
    /\ jit_cache = JitCacheNew
    /\ call = NoCall
    /\ steps = 0

SpecStep == InitStep /\ [][Next]_vars

-----------------------------------------------------------------------------
(* Properties of the run loop                                              *)

\* Running a program with the interpreter only: the loop of Runtime::run
\* reduced to fetch and eval.  The result is how the run ends and the top
\* return value it leaves.
RECURSIVE InterpretOnly(_, _, _, _)
InterpretOnly(fs, rvs, prog, fuel) ==
    IF fs = <<>> THEN [status |-> "ok", top |-> TopReturnValue(rvs)]
    ELSE IF fuel = 0 THEN [status |-> "running", top |-> TopReturnValue(rvs)]
    ELSE LET fetched == Fetch(fs, prog)
             evaluated == Eval(fetched.frames, rvs, fetched.inst, prog)
         IN  IF fetched.panic
             THEN [status |-> "panic", top |-> TopReturnValue(rvs)]
             ELSE IF evaluated.result # "ok"
             THEN [status |-> evaluated.result,
                   top |-> TopReturnValue(evaluated.return_values)]
             ELSE InterpretOnly(evaluated.frames, evaluated.return_values,
                                prog, fuel - 1)

Interpreted ==
    InterpretOnly(<<Frame(PC(EntryPoint(program), 0), <<>>, NoLocals)>>,
                  <<>>, program, MaxSteps)

\* C1: a run of the loop with profiling, recording and native dispatch ends
\* as the interpreter-only run of the same program ends, with the same top
\* return value.
C1_SameTopReturnValue ==
    status # "running" =>
        /\ status = Interpreted.status
        /\ TopReturnValue(return_values) = Interpreted.top

\* The run loop is at the loop header again while a recording with at least
\* one entry is in progress, and takes its step without a panic.
BackAtLoopHeader ==
    /\ status = "running"
    /\ frames # <<>>
    /\ ~StepFetch.panic
    /\ ~StepRecord.panic
    /\ IsRecording(recorder)
    /\ recorder.trace # <<>>
    /\ FetchedPC = recorder.loop_header
    /\ steps' = steps + 1

\* C4: a step of the run loop that reaches the loop header while the
\* recorder is Recording with a non-empty trace leaves the recorder Idle and
\* a native trace cached for the recording's start, and a cached trace
\* stays cached.
C4_FinalizedAtLoopHeader ==
    [][/\ BackAtLoopHeader =>
              /\ ~IsRecording(recorder')
              /\ HasNativeTrace(jit_cache', recorder.trace_start)
       /\ \A pc \in DOMAIN jit_cache.traces : HasNativeTrace(jit_cache', pc)
      ]_vars

\* The run loop takes a step on which a native trace exists for the pc and
\* its call returns.
NativeStep ==
    /\ status = "running"
    /\ frames # <<>>
    /\ ~StepFetch.panic
    /\ ~StepRecord.panic
    /\ HasNativeTrace(jit_cache, FetchedPC)
    /\ StepExecute.outcome = "exit"
    /\ steps' = steps + 1

\* C5: a step that executes a native trace leaves the frames as execute
\* left them, the instruction index at the exit pc; the fetched instruction
\* is not evaluated on top of that.
C5_NativeStepSkipsEval ==
    [][NativeStep =>
           /\ frames' = StepExecute.frames
           /\ Top(frames').pc.instruction_index = StepExecute.ret
      ]_vars

\* The recording a finalization at this point of the run would return: the
\* loop is back at the header and is_done_recording answers true.
AtFinalization ==
    /\ status = "running"
    /\ frames # <<>>
    /\ ~StepFetch.panic
    /\ IsRecording(recorder)
    /\ IsDoneRecording(recorder, FetchedPC).ret

Finalized == RecorderRecording(recorder).ret

\* C10: a recording finalized in a run, if it has an entry, starts with an
\* entry whose pc is the recording's start.
C10_FirstEntryAtStart ==
    AtFinalization /\ Finalized.trace # <<>> =>
        Finalized.trace[1].pc = Finalized.start

-----------------------------------------------------------------------------
(* Properties of the profiler, under SpecProfiler                          *)

CountOf(p, pc) == IF pc \in DOMAIN p.records THEN p.records[pc] ELSE 0

\* The test count_entry's contract puts on the pc: same method as the
\* last pc, strictly smaller instruction index.
BackwardInMethod(p, pc) ==
    /\ pc.method_index = p.last_pc.method_index
    /\ pc.instruction_index < p.last_pc.instruction_index

\* C2: count_entry(pc) adds exactly one to pc's counter when pc is in the
\* last pc's method at a strictly smaller instruction index, leaves every
\* counter as it was otherwise, and makes pc the last pc either way.
C2_CountEntry ==
    call.op = "count_entry" =>
        /\ profiler.last_pc = call.pc
        /\ IF BackwardInMethod(call.before, call.pc)
           THEN /\ CountOf(profiler, call.pc)
                      = CountOf(call.before, call.pc) + 1
                /\ \A pc \in ProfilerPCs \ {call.pc} :
                       CountOf(profiler, pc) = CountOf(call.before, pc)
                /\ DOMAIN profiler.records
                      = DOMAIN call.before.records \cup {call.pc}
           ELSE profiler.records = call.before.records

C2_Witness ==
    /\ call.op = "count_entry"
    /\ BackwardInMethod(call.before, call.pc)
    /\ CountOf(call.before, call.pc) = 1
    /\ CountOf(profiler, call.pc) = 2

\* C3: is_hot(pc) is true exactly when pc's counter is above 2, so never
\* for an uncounted pc or for counts 1 and 2, and a call after which pc is
\* hot for the first time is the one that takes its counter from 2 to 3.
C3_IsHot ==
    /\ \A pc \in ProfilerPCs :
           IsHot(profiler, pc) <=> CountOf(profiler, pc) > 2
    /\ call.op # "none" /\ IsHot(profiler, call.pc) /\ ~call.ret =>
           /\ CountOf(call.before, call.pc) = 2
           /\ CountOf(profiler, call.pc) = 3

C3_Witness ==
    /\ call.op = "count_entry"
    /\ IsHot(profiler, call.pc)
    /\ ~call.ret
    /\ \E pc \in ProfilerPCs :
           pc # call.pc /\ CountOf(profiler, pc) = 0 /\ ~IsHot(profiler, pc)

-----------------------------------------------------------------------------
(* Properties of the recorder, under SpecRecorder                          *)

\* C6: init(loop_header, start) on a recorder that is Recording with
\* trace_start = start changes nothing of the recorder.
C6_InitSameStart ==
    /\ call.op = "init"
    /\ call.before.is_recording
    /\ call.before.trace_start = call.start
    => recorder = call.before

C6_Witness ==
    /\ call.op = "init"
    /\ call.before.is_recording
    /\ call.before.trace_start = call.start
    /\ call.before.loop_header # call.pc
    /\ call.before.trace # <<>>
    /\ recorder.trace # <<>>

\* C7: init(loop_header, start) on a recorder that is Idle, or Recording
\* at another start, leaves it Recording with an empty trace, empty target
\* sets, the branch flag cleared, trace_start = start and
\* loop_header = loop_header.
C7_InitResets ==
    /\ call.op = "init"
    /\ ~(call.before.is_recording /\ call.before.trace_start = call.start)
    => /\ recorder.is_recording
       /\ recorder.trace = <<>>
       /\ recorder.inner_branch_targets = {}
       /\ recorder.outer_branch_targets = {}
       /\ ~recorder.last_instruction_was_branch
       /\ recorder.trace_start = call.start
       /\ recorder.loop_header = call.pc

C7_Witness ==
    /\ call.op = "init"
    /\ call.before.is_recording
    /\ call.before.trace_start # call.start
    /\ call.before.trace # <<>>
    /\ call.before.last_instruction_was_branch
    /\ call.start # call.pc
    /\ recorder.trace = <<>>

LastIsReturn(r) ==
    r.trace # <<>> /\ r.trace[Len(r.trace)].inst.mnemonic \in ReturnOps

\* C8: is_done_recording(pc) answers false on an empty trace; on a trace
\* whose last entry is not a return it answers true exactly when pc is the
\* loop header; in both cases the recorder is left as it was.
C8_IsDoneRecording ==
    call.op = "is_done_recording" =>
        /\ call.before.trace = <<>> =>
               ~call.ret /\ recorder = call.before
        /\ call.before.trace # <<>> /\ ~LastIsReturn(call.before) =>
               /\ call.ret <=> call.pc = call.before.loop_header
               /\ recorder = call.before

C8_Witness ==
    /\ call.op = "is_done_recording"
    /\ call.before.trace # <<>>
    /\ ~LastIsReturn(call.before)
    /\ call.before.loop_header # call.before.trace_start
    /\ call.ret

\* C9: recording() returns the trace start as start and the recorder's
\* trace and inner and outer target sets as they were at the call, and
\* leaves the recorder not recording.
C9_Recording ==
    call.op = "recording" =>
        /\ call.ret.start = call.before.trace_start
        /\ call.ret.trace = call.before.trace
        /\ call.ret.inner_branch_targets = call.before.inner_branch_targets
        /\ call.ret.outer_branch_targets = call.before.outer_branch_targets
        /\ ~IsRecording(recorder)

C9_Witness ==
    /\ call.op = "recording"
    /\ call.before.is_recording
    /\ call.before.trace # <<>>
    /\ call.before.loop_header # call.before.trace_start
    /\ call.before.inner_branch_targets
           \cup call.before.outer_branch_targets # {}
    /\ ~IsRecording(recorder)

\* The call was record on a recorder that was Recording, and it returned.
Recorded ==
    /\ call.op = "record"
    /\ call.before.is_recording
    /\ status = "running"

\* C11: every entry of the trace of a recorder that is Recording lies in the
\* method of the trace start, and record with a pc in another method leaves
\* the recorder Idle without appending the entry.
C11_EntriesInStartMethod ==
    /\ IsRecording(recorder) =>
           \A i \in DOMAIN recorder.trace :
               recorder.trace[i].pc.method_index
                   = recorder.trace_start.method_index
    /\ Recorded
       /\ call.pc.method_index # call.before.trace_start.method_index =>
           /\ ~IsRecording(recorder)
           /\ Len(recorder.trace) <= Len(call.before.trace)

\* An entry that is a conditional branch on which no flip is pending: any
\* conditional branch but a last entry with the branch flag set.
SettledBranch(r, i) ==
    /\ r.trace[i].inst.mnemonic \in CondBranches
    /\ ~(i = Len(r.trace) /\ r.last_instruction_was_branch)

\* C12: every conditional branch entry of a trace that the flip procedure
\* is done with carries the offset operand +3; in particular the entry that
\* record re-inserts for a taken branch does.
C12_BranchOffsetsAreThree ==
    Recorded =>
        \A i \in DOMAIN recorder.trace :
            SettledBranch(recorder, i) =>
                recorder.trace[i].inst.operands = <<VInt(3)>>

\* The call was record of a goto with an integer offset, with no branch
\* flip pending, on a recorder that was Recording.
RecordedGoto ==
    /\ Recorded
    /\ call.inst.mnemonic = "Goto"
    /\ ~call.before.last_instruction_was_branch

GotoOffset == call.inst.operands[1].v

GotoTarget ==
    PC(call.pc.method_index, call.pc.instruction_index + GotoOffset)

\* C19: record of a goto, with no branch flip pending, leaves the trace as
\* long as it was, whether the offset is negative or positive.
C19_GotoNotAppended ==
    RecordedGoto => Len(recorder.trace) = Len(call.before.trace)

-----------------------------------------------------------------------------
(* Conditional branches in the recorder, under SpecRecorder                *)

\* C21: record of a conditional branch, whichever of the twelve it is, sets
\* the branch flag and appends the branch at the pc given, with its mnemonic
\* and operand as they were.
C21_BranchFlaggedAndAppended ==
    Recorded /\ call.inst.mnemonic \in CondBranches =>
        /\ recorder.last_instruction_was_branch
        /\ recorder.trace # <<>>
        /\ recorder.trace[Len(recorder.trace)]
               = RecordEntry(call.pc, call.inst)

\* The call was record on a recorder that was Recording with the branch
\* flag set: the flip procedure ran on the last entry of the trace.
FlipPending ==
    /\ call.op = "record"
    /\ call.before.is_recording
    /\ call.before.last_instruction_was_branch
    /\ call.before.trace # <<>>

PendingIndex == Len(call.before.trace)

PendingBranch == call.before.trace[PendingIndex]

PendingOffset == PendingBranch.inst.operands[1].v

\* The pending branch was taken: its target is the pc record was given.
BranchTaken ==
    PC(PendingBranch.pc.method_index,
       PendingBranch.pc.instruction_index + PendingOffset) = call.pc

\* C22: when the flip procedure finds the last recorded branch not taken,
\* the trace after the record call still holds that entry, as it was.
C22_UntakenBranchKept ==
    FlipPending /\ ~BranchTaken /\ status = "running" =>
        /\ Len(recorder.trace) >= PendingIndex
        /\ recorder.trace[PendingIndex] = PendingBranch

\* The logical negation of a conditional branch the recorder flags.
Negation(mnemonic) ==
    CASE mnemonic = "IfNe" -> "IfEq"
      [] mnemonic = "IfEq" -> "IfNe"
      [] mnemonic = "IfGt" -> "IfLe"
      [] mnemonic = "IfICmpGe" -> "IfICmpLt"
      [] mnemonic = "IfICmpLt" -> "IfICmpGe"
      [] mnemonic = "IfICmpGt" -> "IfICmpLe"
      [] mnemonic = "IfICmpLe" -> "IfICmpGt"
      [] mnemonic = "IfICmpNe" -> "IfICmpEq"
      [] mnemonic = "IfICmpEq" -> "IfICmpNe"

\* C23: when the flip procedure finds the last recorded branch taken, the
\* record call returns and the entry carries the negation of the mnemonic
\* it had, for each of the nine branches record flags.
C23_TakenBranchNegated ==
    FlipPending /\ BranchTaken =>
        /\ status = "running"
        /\ Len(recorder.trace) >= PendingIndex
        /\ recorder.trace[PendingIndex].inst.mnemonic
               = Negation(PendingBranch.inst.mnemonic)

\* The fall-through pc of the pending branch.
FallThrough ==
    PC(PendingBranch.pc.method_index, PendingBranch.pc.instruction_index + 3)

\* C24: when the flip procedure flips a taken branch, the branch pc + 3 is
\* among the inner targets if the offset the branch had was negative and
\* among the outer targets if it was positive.
C24_FlippedTargetBySign ==
    FlipPending /\ BranchTaken /\ status = "running" =>
        /\ PendingOffset < 0 => FallThrough \in recorder.inner_branch_targets
        /\ PendingOffset > 0 => FallThrough \in recorder.outer_branch_targets

-----------------------------------------------------------------------------
(* Aborted and trivial recordings, under SpecRecorder                      *)

\* The next iteration of the run loop fetches an invokestatic whose callee
\* is the method of the trace start, and hands it to a recorder that is
\* Recording.
RecursiveCallNext ==
    /\ status = "running"
    /\ frames # <<>>
    /\ ~StepFetch.panic
    /\ IsRecording(StepInit)
    /\ StepFetch.inst.mnemonic = "InvokeStatic"
    /\ StepFetch.inst.operands[1].v = StepInit.trace_start.method_index

\* C25, under Spec: the iteration of the run loop that records an
\* invokestatic whose callee is the method of the trace start leaves the
\* recorder Idle and appends nothing (the trace is no longer than it was,
\* and is the same trace when no flip was pending), and the call is
\* interpreted: eval pushes the callee's frame.
C25_RecursiveCallAborts ==
    [][RecursiveCallNext =>
           /\ ~IsRecording(recorder')
           /\ Len(recorder'.trace) <= Len(StepInit.trace)
           /\ ~StepInit.last_instruction_was_branch =>
                  recorder'.trace = StepInit.trace
           /\ status' = "running"
           /\ frames' = Eval(StepFetch.frames, return_values, StepFetch.inst,
                             program).frames
           /\ Len(frames') = Len(frames) + 1
           /\ Top(frames').pc = PC(StepInit.trace_start.method_index, 0)
      ]_vars

\* The recorder was stopped in the middle of a trace and the frame on top
\* is a new frame of the method of the trace start.
C25_Witness ==
    /\ status = "running"
    /\ ~IsRecording(recorder)
    /\ recorder.trace # <<>>
    /\ \A i \in DOMAIN recorder.trace :
           recorder.trace[i].inst.mnemonic # "InvokeStatic"
    /\ Len(frames) > 2
    /\ Top(frames).pc = PC(recorder.trace_start.method_index, 0)

\* The call was is_done_recording on a recorder that was Recording and
\* whose last entry is a typed return.
CheckedAfterReturn ==
    /\ call.op = "is_done_recording"
    /\ call.before.is_recording
    /\ call.before.trace # <<>>
    /\ call.before.trace[Len(call.before.trace)].inst.mnemonic
           \in TypedReturns

ReturnMethod ==
    call.before.trace[Len(call.before.trace)].pc.method_index

\* C26: when the last entry is a typed return in the method of the trace
\* start, is_done_recording leaves the recorder Idle and returns false
\* whatever pc it is given; when the return is in another method the
\* recorder stays Recording.
C26_ReturnInStartMethodAborts ==
    CheckedAfterReturn =>
        /\ ReturnMethod = call.before.trace_start.method_index =>
               ~IsRecording(recorder) /\ call.ret = FALSE
        /\ ReturnMethod # call.before.trace_start.method_index =>
               IsRecording(recorder)

\* C27: when the first instruction recorded after init is a goto back to
\* the trace start, the recording returned right after it has no entry and
\* exactly one inner target.
C27_BackEdgeOnly ==
    /\ RecordedGoto
    /\ call.before = RecorderInit(RecorderNew, call.before.loop_header,
                                  call.before.trace_start)
    /\ GotoOffset < 0
    /\ GotoTarget = call.before.trace_start
    => LET finalized == RecorderRecording(recorder).ret
       IN  /\ finalized.trace = <<>>
           /\ Cardinality(finalized.inner_branch_targets) = 1

-----------------------------------------------------------------------------
(* Properties of the interpreter, under SpecEval                           *)

\* The frame eval worked on, and the value on top of its stack.
EvaluatedFrame == Top(call.before.frames)

ReturnedValue == EvaluatedFrame.stack[Len(EvaluatedFrame.stack)]

\* C16: eval of ireturn, lreturn, freturn or dreturn on a frame with a value
\* on its stack removes the frame, pushes the value on the caller's stack
\* when there is a caller and makes it the top return value; eval of return
\* removes the frame and leaves the top return value as it was.
C16_Returns ==
    call.op = "eval" /\ call.before.frames # <<>> =>
        /\ call.inst.mnemonic \in TypedReturns
           /\ EvaluatedFrame.stack # <<>> =>
               /\ call.ret = "ok"
               /\ Len(frames) = Len(call.before.frames) - 1
               /\ \A k \in 1..(Len(frames) - 1) :
                      frames[k] = call.before.frames[k]
               /\ frames # <<>> =>
                      frames[Len(frames)] =
                          [call.before.frames[Len(frames)] EXCEPT
                               !.stack = Append(@, ReturnedValue)]
               /\ TopReturnValue(return_values) = <<ReturnedValue>>
        /\ call.inst.mnemonic = "Return" =>
               /\ call.ret = "ok"
               /\ frames = SubSeq(call.before.frames, 1,
                                  Len(call.before.frames) - 1)
               /\ TopReturnValue(return_values)
                      = TopReturnValue(call.before.return_values)

C16_Witness ==
    /\ call.op = "eval"
    /\ call.inst.mnemonic = "LReturn"
    /\ Len(call.before.frames) = 2
    /\ call.before.return_values = <<VInt(9)>>
    /\ EvaluatedFrame.stack # <<>>
    /\ TopReturnValue(return_values) = <<VLong(4)>>
    /\ Top(frames).stack = <<VInt(1), VLong(4)>>

\* The number of values eval pops for an arithmetic instruction, a
\* comparison, a store or invokevirtual.
PoppedBy(mnemonic) ==
    IF mnemonic \in {ArithNames[k] : k \in DOMAIN ArithNames}
                    \cup {"LCmp", "FCmpL", "FCmpG", "DCmpL", "DCmpG"}
                    \cup {"IfICmpEq", "IfICmpNe", "IfICmpLt", "IfICmpGt",
                          "IfICmpLe", "IfICmpGe"}
    THEN 2
    ELSE IF mnemonic \in ShortStores
                         \cup {"IStore", "LStore", "FStore", "DStore",
                               "InvokeVirtual"}
    THEN 1
    ELSE 0

\* C17: eval of an arithmetic instruction, a comparison, a store or
\* invokevirtual on a frame whose stack holds fewer values than the
\* instruction pops ends with Err.
C17_EmptyStackIsError ==
    /\ call.op = "eval"
    /\ call.before.frames # <<>>
    /\ Len(EvaluatedFrame.stack) < PoppedBy(call.inst.mnemonic)
    => call.ret = "err"

-----------------------------------------------------------------------------
(* Termination of the run loop, under Spec                                 *)

\* C18: the run loop fetches and evaluates only while there is a frame; the
\* step whose eval leaves no frame is the eval of a return and ends the run
\* with Ok, and the run ends with Ok in no other way.
C18_RunEndsWithLastFrame ==
    [][/\ frames # <<>>
       /\ frames' = <<>> /\ status' # "panic" =>
              /\ status' = "ok"
              /\ StepFetch.inst.mnemonic \in ReturnOps
       /\ status' = "ok" => frames' = <<>>
       /\ status' = "running" => frames' # <<>>
      ]_vars

C18_Witness ==
    /\ status = "ok"
    /\ frames = <<>>
    /\ steps > 0
    /\ return_values # <<>>

-----------------------------------------------------------------------------
(* Properties of the JIT cache, under SpecJit                              *)

\* The call was compile and it returned.
Compiled == call.op = "compile" /\ status = "running"

\* The call was execute at a pc with a native trace, and it returned.
Executed ==
    /\ call.op = "execute"
    /\ status = "running"
    /\ HasNativeTrace(call.before.jit_cache, call.pc)

\* C13: a fresh cache has no native trace; after compile(recording) the pcs
\* with a native trace are those that had one before and recording.start;
\* execute leaves them as they were.
C13_NoEviction ==
    \A pc \in JitPCs(program) :
        /\ call.op = "none" => ~HasNativeTrace(jit_cache, pc)
        /\ Compiled =>
               (HasNativeTrace(jit_cache, pc) <=>
                    HasNativeTrace(call.before.jit_cache, pc)
                    \/ pc = call.start)
        /\ call.op = "execute" =>
               (HasNativeTrace(jit_cache, pc) <=>
                    HasNativeTrace(call.before.jit_cache, pc))

C13_Witness ==
    /\ Compiled
    /\ \E pc \in JitPCs(program) :
           /\ pc # call.start
           /\ HasNativeTrace(call.before.jit_cache, pc)
           /\ HasNativeTrace(jit_cache, pc)
    /\ ~HasNativeTrace(call.before.jit_cache, call.start)
    /\ HasNativeTrace(jit_cache, call.start)
    /\ \E pc \in JitPCs(program) : ~HasNativeTrace(jit_cache, pc)

\* The indices at which an instruction of the code starts.
RECURSIVE InstructionStarts(_, _)
InstructionStarts(code, i) ==
    IF i >= Len(code) THEN {}
    ELSE {i} \cup InstructionStarts(
                      code, i + 1 + OperandBytes(OPCodeFrom(code[i + 1])))

\* C14: the value execute returns for a pc with a native trace is the index
\* of an instruction of the frame's method.
C14_ExitPcIsInstruction ==
    Executed =>
        call.ret \in InstructionStarts(
                         Code(program, call.pc.method_index), 0)

\* The slots of the locals buffer the instructions of a native trace store
\* to: a 64-bit mov from a register covers two.
StoredSlots(code) ==
    UNION {IF code[i].op = "mov" /\ code[i].src.kind = "Register"
           THEN {Slot(code[i].dst), Slot(code[i].dst) + 1}
           ELSE {Slot(code[i].dst)} :
               i \in {j \in DOMAIN code :
                          /\ code[j].op \in {"mov", "addmem"}
                          /\ code[j].dst.kind = "Memory"}}

ExecutedLocals == Top(call.before.frames).locals

ExecutedCode == call.before.jit_cache.traces[call.pc].code

\* C15: after execute every Int local of the frame that the native trace
\* stores nothing to is at the index it was at, with the value it had.
C15_UnwrittenLocalsKept ==
    Executed =>
        \A k \in DOMAIN ExecutedLocals :
            ExecutedLocals[k].t = "Int" /\ k \notin StoredSlots(ExecutedCode)
            => /\ k \in DOMAIN Top(frames).locals
               /\ Top(frames).locals[k] = ExecutedLocals[k]

C15_Witness ==
    /\ Executed
    /\ \E k \in DOMAIN ExecutedLocals :
           /\ k \notin StoredSlots(ExecutedCode)
           /\ ExecutedLocals[k] = VInt(3)
           /\ Top(frames).locals[k] = VInt(3)
    /\ \E k \in DOMAIN ExecutedLocals :
           /\ k \in StoredSlots(ExecutedCode)
           /\ Top(frames).locals[k] # ExecutedLocals[k]

-----------------------------------------------------------------------------
(* Compilation of guards, under SpecJit                                    *)

\* The recording compiled for a pc: the one of the program's recordings
\* that starts there.
RecordingAt(pc) ==
    CHOOSE recording \in JitRecordings(program) : recording.start = pc

\* C28: compile starts from the full register pool and an empty operand
\* stack: it leaves as many operands on the stack and as many registers in
\* the queue, and panics or not, as it does when the cache it is given has
\* its registers and operands replaced by the initial ones.
C28_CompileStartsClean ==
    call.op = "compile" =>
        LET reset == [call.before.jit_cache EXCEPT
                          !.registers = InitialRegisters,
                          !.operands = <<>>]
            clean == Compile(reset, RecordingAt(call.start))
        IN  /\ (status = "panic") = clean.panic
            /\ Len(jit_cache.operands) = Len(clean.jit_cache.operands)
            /\ Len(jit_cache.registers) = Len(clean.jit_cache.registers)

ICmpOps ==
    {"IfICmpEq", "IfICmpNe", "IfICmpLt", "IfICmpGe", "IfICmpGt", "IfICmpLe"}

UnaryGuardOps == {"IfEq", "IfNe"}

\* The entries of a trace whose mnemonic is one of ops.
EntriesIn(trace, ops) == {i \in DOMAIN trace : trace[i].inst.mnemonic \in ops}

\* The compares of an assembled trace that a conditional jump to
\* abort_guard follows.
CmpJumps(code) ==
    {i \in DOMAIN code :
         /\ code[i].op = "cmp"
         /\ i < Len(code)
         /\ code[i + 1].op = "jcc"}

CompiledCode == jit_cache.traces[call.start].code

\* C29: compile gives every if_icmp entry of the recording a compare
\* followed by a conditional jump to abort_guard: a trace without ifeq and
\* ifne has as many of them as it has if_icmp entries.
C29_EveryICmpLowered ==
    Compiled =>
        LET trace == RecordingAt(call.start).trace
        IN  EntriesIn(trace, UnaryGuardOps) = {} =>
                Cardinality(CmpJumps(CompiledCode))
                    = Cardinality(EntriesIn(trace, ICmpOps))

\* The guards compile emits a jump to abort_guard for.
LoweredGuards == CompiledGuards \cup UnaryGuardOps

\* The last guard entry of a trace; 0 when it has none.
LastGuard(trace) ==
    IF EntriesIn(trace, LoweredGuards) = {} THEN 0
    ELSE CHOOSE i \in EntriesIn(trace, LoweredGuards) :
             \A j \in EntriesIn(trace, LoweredGuards) : j <= i

\* C30: the pc execute returns from a native trace with a guard is the
\* recorded instruction index of the trace's last guard plus its offset,
\* for ifeq and ifne guards as for if_icmp guards.
C30_ExitPcOfLastGuard ==
    Executed =>
        LET trace == RecordingAt(call.pc).trace
            guard == trace[LastGuard(trace)]
        IN  LastGuard(trace) # 0 =>
                call.ret = guard.pc.instruction_index
                               + guard.inst.operands[1].v

-----------------------------------------------------------------------------
(* Branch targets, under SpecStep                                          *)

\* The code of the current frame's method and the index of the instruction
\* the next iteration of the run loop fetches.
CurrentCode == Code(program, Top(frames).pc.method_index)

CurrentIndex == Top(frames).pc.instruction_index

CurrentOpcode == OPCodeFrom(CurrentCode[CurrentIndex + 1])

CurrentStack == Top(frames).stack

\* A 16-bit two's complement number from its bytes, high byte first.
Signed16(hi, lo) ==
    IF hi * 256 + lo >= 32768 THEN hi * 256 + lo - 65536 ELSE hi * 256 + lo

\* The offset encoded after the opcode byte of the next instruction.
EncodedOffset ==
    Signed16(CurrentCode[CurrentIndex + 2], CurrentCode[CurrentIndex + 3])

\* The number of ints a branch pops.
BranchPops(mnemonic) ==
    IF mnemonic = "Goto" THEN 0
    ELSE IF mnemonic \in {"IfEq", "IfNe", "IfLt", "IfGe", "IfGt", "IfLe"}
    THEN 1 ELSE 2

\* Whether the JVM takes the branch: value1 is under value2 on the stack.
JvmTaken(mnemonic, stack) ==
    LET value2 == stack[Len(stack)].v
        value1 == stack[Len(stack) - 1].v
    IN  CASE mnemonic = "Goto" -> TRUE
          [] mnemonic = "IfEq" -> value2 = 0
          [] mnemonic = "IfNe" -> value2 # 0
          [] mnemonic = "IfLt" -> value2 < 0
          [] mnemonic = "IfGe" -> value2 >= 0
          [] mnemonic = "IfGt" -> value2 > 0
          [] mnemonic = "IfLe" -> value2 <= 0
          [] mnemonic = "IfICmpEq" -> value1 = value2
          [] mnemonic = "IfICmpNe" -> value1 # value2
          [] mnemonic = "IfICmpLt" -> value1 < value2
          [] mnemonic = "IfICmpGe" -> value1 >= value2
          [] mnemonic = "IfICmpGt" -> value1 > value2
          [] mnemonic = "IfICmpLe" -> value1 <= value2

\* The next iteration fetches a branch or goto, with the ints it pops on
\* the stack.
BranchNext ==
    /\ status = "running"
    /\ frames # <<>>
    /\ CurrentIndex + 2 < Len(CurrentCode)
    /\ CurrentOpcode \in CondBranches \cup {"Goto"}
    /\ Len(CurrentStack) >= BranchPops(CurrentOpcode)
    /\ \A i \in DOMAIN CurrentStack : CurrentStack[i].t = "Int"

\* C31: an iteration of the run loop that fetches and evaluates a branch or
\* goto whose opcode byte is at index p and whose encoded offset is o leaves
\* the frame at p + o when the branch is taken and at p + 3 when it is not.
C31_BranchTarget ==
    [][BranchNext /\ status' = "running" =>
           /\ Len(frames') = Len(frames)
           /\ Top(frames').pc.instruction_index =
                  IF JvmTaken(CurrentOpcode, CurrentStack)
                  THEN CurrentIndex + EncodedOffset
                  ELSE CurrentIndex + 3
      ]_vars

\* if_icmplt with -1 under 0 and offset -4 was taken from index 4 back to
\* index 0.
C31_Witness ==
    /\ status = "running"
    /\ steps = 5
    /\ Code(program, 11) = BranchCode(161, -4)
    /\ Top(frames).pc.instruction_index = 0
    /\ Top(frames).stack = <<>>

-----------------------------------------------------------------------------
(* Calls, increments and arithmetic, under SpecEval                        *)

\* The frame eval was called on, and the values on its operand stack.
FrameBefore == Top(call.before.frames)

StackBefore == FrameBefore.stack

\* The slots a value of a primitive type takes among the locals.
SlotSize(t) ==
    CASE t \in {"Int", "Float"} -> 1
      [] t \in {"Long", "Double"} -> 2
      [] OTHER -> 0

\* The local index of the k-th argument: the slots of the arguments before.
RECURSIVE ArgumentSlot(_, _)
ArgumentSlot(types, k) ==
    IF k = 1 THEN 0
    ELSE ArgumentSlot(types, k - 1) + SlotSize(types[k - 1])

\* eval was called on invokestatic of a method of primitive argument types
\* with at least as many values on the stack as the method has arguments.
InvokedStatic ==
    /\ call.op = "eval"
    /\ call.inst.mnemonic = "InvokeStatic"
    /\ call.before.frames # <<>>
    /\ call.inst.operands[1].v \in DOMAIN program.methods
    /\ LET types == program.methods[call.inst.operands[1].v].arg_types
       IN  /\ \A k \in DOMAIN types :
                  types[k] \in {"Int", "Float", "Long", "Double"}
           /\ Len(StackBefore) >= Len(types)

\* C32: invokestatic of a method with argument types t1..tn pops n values
\* from the caller's stack, stores the k-th argument at the callee local
\* whose index is the sum of the slot sizes of t1..t(k-1), and starts the
\* callee at instruction index 0 with an empty operand stack.
C32_InvokeStaticArguments ==
    InvokedStatic =>
        LET callee == call.inst.operands[1].v
            types == program.methods[callee].arg_types
            n == Len(types)
            depth == Len(StackBefore)
        IN  /\ call.ret = "ok"
            /\ Len(frames) = Len(call.before.frames) + 1
            /\ ButLast(frames) =
                   SetTop(call.before.frames,
                          [FrameBefore EXCEPT
                               !.stack = SubSeq(StackBefore, 1, depth - n)])
            /\ Top(frames).pc = PC(callee, 0)
            /\ Top(frames).stack = <<>>
            /\ DOMAIN Top(frames).locals =
                   {ArgumentSlot(types, k) : k \in 1..n}
            /\ \A k \in 1..n :
                   Top(frames).locals[ArgumentSlot(types, k)] =
                       StackBefore[depth - n + k]

\* g, of descriptor (JI)D, was called on a stack holding a long under an
\* int: the long is local 0 and the int local 2.
C32_Witness ==
    /\ InvokedStatic
    /\ call.inst.operands[1].v = 13
    /\ Top(frames).locals = (0 :> VLong(4)) @@ (2 :> VInt(7))
    /\ frames[Len(frames) - 1].stack = <<VInt(1)>>

\* The sum of two ints as a 32-bit two's complement int: 2^32 is taken off
\* a sum above 2^31 - 1 and added to one below -2^31.
Int32Sum(a, b) ==
    IF b > 0 /\ a > MaxI32 - b
    THEN ((a - MaxI32) + (b - MaxI32)) - 2
    ELSE IF b < 0 /\ a < MinI32 - b
         THEN ((a + MaxI32) + (b + MaxI32)) + 2
         ELSE a + b

\* eval was called on iinc(index, delta) with the local absent or an int.
IIncEvaluated ==
    /\ call.op = "eval"
    /\ call.inst.mnemonic = "IInc"
    /\ call.before.frames # <<>>
    /\ \/ call.inst.operands[1].v \notin DOMAIN FrameBefore.locals
       \/ FrameBefore.locals[call.inst.operands[1].v].t = "Int"

\* C33: iinc(index, delta) sets locals[index] to its previous value plus
\* delta when the local is present and to delta when it is absent; the
\* operand stack, the other locals and the rest of the state stay as they
\* were.
C33_IIncAddsToLocal ==
    IIncEvaluated =>
        LET index == call.inst.operands[1].v
            delta == call.inst.operands[2].v
            incremented ==
                IF index \in DOMAIN FrameBefore.locals
                THEN Int32Sum(FrameBefore.locals[index].v, delta)
                ELSE delta
        IN  /\ call.ret = "ok"
            /\ return_values = call.before.return_values
            /\ frames =
                   SetTop(call.before.frames,
                          [FrameBefore EXCEPT
                               !.locals = (index :> VInt(incremented)) @@ @])

\* iinc(1, 2) took local 1 from 3 to 5 under a stack of two values.
C33_Witness ==
    /\ IIncEvaluated
    /\ call.inst.operands = <<VInt(1), VInt(2)>>
    /\ FrameBefore.locals = (1 :> VInt(3))
    /\ Top(frames).locals = (1 :> VInt(5))
    /\ Len(Top(frames).stack) = 2

\* The binary arithmetic opcodes: the type of their operands and the
\* operation.
ArithmeticOpcodes ==
    [IAdd |-> <<"Int", "add">>, ISub |-> <<"Int", "sub">>,
     IMul |-> <<"Int", "mul">>, IDiv |-> <<"Int", "div">>,
     IRem |-> <<"Int", "rem">>, LAdd |-> <<"Long", "add">>]

\* Division truncates toward zero and the remainder takes the sign of the
\* dividend.
Truncated(a, b) ==
    LET q == (IF a < 0 THEN -a ELSE a) \div (IF b < 0 THEN -b ELSE b)
    IN  IF (a < 0) = (b < 0) THEN q ELSE -q

Arithmetic(op, a, b) ==
    CASE op = "add" -> a + b
      [] op = "sub" -> a - b
      [] op = "mul" -> a * b
      [] op = "div" -> Truncated(a, b)
      [] op = "rem" -> a - b * Truncated(a, b)

\* eval was called on a binary arithmetic opcode with lhs under rhs on top
\* of the stack, both of the opcode's type, and a divisor that is not zero.
ArithmeticEvaluated ==
    /\ call.op = "eval"
    /\ call.inst.mnemonic \in DOMAIN ArithmeticOpcodes
    /\ call.before.frames # <<>>
    /\ Len(StackBefore) >= 2
    /\ StackBefore[Len(StackBefore)].t = ArithmeticOpcodes[call.inst.mnemonic][1]
    /\ StackBefore[Len(StackBefore) - 1].t = ArithmeticOpcodes[call.inst.mnemonic][1]
    /\ ArithmeticOpcodes[call.inst.mnemonic][2] \in {"div", "rem"} =>
           StackBefore[Len(StackBefore)].v # 0

\* C34: a binary arithmetic opcode on a stack holding lhs under rhs pops
\* both and pushes op(lhs, rhs), so the stack is one shorter and isub
\* pushes lhs minus rhs.
C34_ArithmeticOperandOrder ==
    ArithmeticEvaluated =>
        LET depth == Len(StackBefore)
            lhs == StackBefore[depth - 1]
            rhs == StackBefore[depth]
            op == ArithmeticOpcodes[call.inst.mnemonic][2]
            result == [t |-> lhs.t, v |-> Arithmetic(op, lhs.v, rhs.v)]
        IN  /\ call.ret = "ok"
            /\ Len(Top(frames).stack) = depth - 1
            /\ frames =
                   SetTop(call.before.frames,
                          [FrameBefore EXCEPT
                               !.stack = Append(SubSeq(StackBefore, 1, depth - 2),
                                                result)])

\* isub on -7 under 2 pushed -9, and irem on the same stack -1.
C34_Witness ==
    /\ ArithmeticEvaluated
    /\ StackBefore = <<VInt(-7), VInt(2)>>
    /\ \/ call.inst.mnemonic = "ISub" /\ Top(frames).stack = <<VInt(-9)>>
       \/ call.inst.mnemonic = "IRem" /\ Top(frames).stack = <<VInt(-1)>>

-----------------------------------------------------------------------------
(* The pending branch, under SpecRecorder                                  *)

\* The last entry of a trace is a conditional branch.
EndsWithBranch(trace) ==
    /\ trace # <<>>
    /\ trace[Len(trace)].inst.mnemonic \in CondBranches

\* C35: whenever last_instruction_was_branch is set the trace is not empty
\* and its last entry is a conditional branch, after any sequence of init,
\* record, is_done_recording and recording calls; so a record call that
\* runs flip_branch pops a conditional branch.
C35_FlagMeansBranchLast ==
    /\ recorder.last_instruction_was_branch => EndsWithBranch(recorder.trace)
    /\ call.op = "record" /\ call.before.last_instruction_was_branch =>
           EndsWithBranch(call.before.trace)

\* A branch was recorded after another entry and is pending.
C35_Witness ==
    /\ call.op = "record"
    /\ call.inst.mnemonic \in CondBranches
    /\ recorder.last_instruction_was_branch
    /\ Len(recorder.trace) = 2
    /\ EndsWithBranch(recorder.trace)

-----------------------------------------------------------------------------
(* The register allocator, under SpecLower                                 *)

\* The scratch registers JitCache::new puts in the queue.
ScratchPool ==
    {"Rax", "Rcx", "R8", "R9", "R10", "R11", "Rbx", "R12", "R13", "R14",
     "R15"}

\* The registers in the free queue and those on the JIT operand stack.
FreeRegisters == {jit_cache.registers[i] : i \in DOMAIN jit_cache.registers}

OperandRegisters ==
    {jit_cache.operands[i].reg :
         i \in {j \in DOMAIN jit_cache.operands :
                    jit_cache.operands[j].kind = "Register"}}

\* C36: after every lowered entry that did not panic, no register is both
\* in the free queue and on the operand stack, the queue holds no register
\* twice, and every register in either place is one of the scratch pool,
\* never rdi, rsi, rsp or rbp.
C36_RegisterAllocator ==
    status = "running" =>
        /\ FreeRegisters \cap OperandRegisters = {}
        /\ Cardinality(FreeRegisters) = Len(jit_cache.registers)
        /\ FreeRegisters \cup OperandRegisters \subseteq ScratchPool
        /\ (FreeRegisters \cup OperandRegisters)
               \cap {"Rdi", "Rsi", "Rsp", "Rbp"} = {}

\* idiv was lowered with two registers on the operand stack: the divisor's
\* register stays on the stack and the dividend's is back in the queue.
C36_Witness ==
    /\ status = "running"
    /\ call.op = "lower"
    /\ call.inst.mnemonic = "IDiv"
    /\ jit_cache.operands = <<Register("Rcx")>>
    /\ Len(jit_cache.registers) = 10
    /\ jit_cache.registers[10] = "Rax"

-----------------------------------------------------------------------------
(* The frame around JitCache::execute, under SpecJit                       *)

\* The call was execute at a pc the cache has no native trace for.
ExecutedWithoutTrace ==
    /\ call.op = "execute"
    /\ ~HasNativeTrace(call.before.jit_cache, call.pc)

\* C37: execute(pc, frame) for a pc with no native trace returns pc's
\* instruction index and leaves the frame's locals, operand stack and pc as
\* they were.
C37_NoTraceNoChange ==
    ExecutedWithoutTrace =>
        /\ status = "running"
        /\ call.ret = call.pc.instruction_index
        /\ frames = call.before.frames

\* execute found no trace at index 3 of f in a cache that holds a trace for
\* another pc, on a frame with a local and a value on the stack.
C37_Witness ==
    /\ ExecutedWithoutTrace
    /\ call.pc = PC(11, 3)
    /\ DOMAIN jit_cache.traces # {}
    /\ Top(frames).stack = <<VInt(7)>>
    /\ Top(frames).locals # NoLocals

\* The number of i32 slots execute flattens the frame's locals into.
FlattenedSize ==
    program.methods[call.pc.method_index].max_locals * 8

\* C38: after execute has run a native trace the frame's locals hold an Int
\* for every index from 0 to max_locals * 8 - 1 and for no other: a local
\* that was absent and that the trace stores nothing to is Int(0), and no
\* Long, Float or Double local is left.
C38_LocalsFlattenedToInts ==
    Executed =>
        /\ DOMAIN Top(frames).locals = 0..(FlattenedSize - 1)
        /\ \A i \in DOMAIN Top(frames).locals :
               /\ Top(frames).locals[i].t = "Int"
               /\ i \notin DOMAIN ExecutedLocals
                  /\ i \notin StoredSlots(ExecutedCode)
                  => Top(frames).locals[i] = VInt(0)

\* C38 as stated: every local that was absent before the call is Int(0)
\* after it, whatever the trace stored.
C38_AbsentLocalsAreZero ==
    Executed =>
        /\ DOMAIN Top(frames).locals = 0..(FlattenedSize - 1)
        /\ \A i \in DOMAIN Top(frames).locals :
               /\ Top(frames).locals[i].t = "Int"
               /\ i \notin DOMAIN ExecutedLocals
                  => Top(frames).locals[i] = VInt(0)

\* A frame with a Long local 1 and no local 3 went through a native trace.
C38_Witness ==
    /\ Executed
    /\ 1 \in DOMAIN ExecutedLocals
    /\ ExecutedLocals[1].t = "Long"
    /\ Top(frames).locals[1].t = "Int"
    /\ 3 \notin DOMAIN ExecutedLocals
    /\ 3 \notin StoredSlots(ExecutedCode)
    /\ Top(frames).locals[3] = VInt(0)

-----------------------------------------------------------------------------
(* One-byte immediates, under SpecStep                                     *)

\* The bytes after the opcode byte of the next instruction.
ImmediateByte(k) == CurrentCode[CurrentIndex + 1 + k]

\* The next iteration fetches an iinc of an int or absent local, or a
\* bipush.
ImmediateNext ==
    /\ status = "running"
    /\ frames # <<>>
    /\ CurrentIndex + 2 < Len(CurrentCode)
    /\ CurrentOpcode \in {"IInc", "BiPush"}
    /\ CurrentOpcode = "IInc" =>
           \/ ImmediateByte(1) \notin DOMAIN Top(frames).locals
           \/ Top(frames).locals[ImmediateByte(1)].t = "Int"

\* What the iteration does with the immediates: they are the bytes as
\* numbers in 0..255, bipush pushes its byte and iinc adds its second byte
\* to the local its first byte names, as a 32-bit sum.
ImmediatesUnsigned ==
    /\ status' = "running"
    /\ \A k \in DOMAIN StepFetch.inst.operands :
           /\ StepFetch.inst.operands[k] = VInt(ImmediateByte(k))
           /\ StepFetch.inst.operands[k].v \in 0..255
    /\ CurrentOpcode = "BiPush" =>
           /\ Len(StepFetch.inst.operands) = 1
           /\ Top(frames').stack =
                  Append(CurrentStack, VInt(ImmediateByte(1)))
    /\ CurrentOpcode = "IInc" =>
           /\ Len(StepFetch.inst.operands) = 2
           /\ Top(frames').locals[ImmediateByte(1)] =
                  IF ImmediateByte(1) \in DOMAIN Top(frames).locals
                  THEN VInt(Int32Sum(Top(frames).locals[ImmediateByte(1)].v,
                                     ImmediateByte(2)))
                  ELSE VInt(ImmediateByte(2))

\* The local an iinc names is present before and after the iteration and
\* not smaller after it.
NotDecreased ==
    CurrentOpcode = "IInc"
    /\ ImmediateByte(1) \in DOMAIN Top(frames).locals
    => Top(frames').locals[ImmediateByte(1)].v
           >= Top(frames).locals[ImmediateByte(1)].v

\* C39 as stated: the immediates of iinc and bipush are decoded in 0..255,
\* so that iinc never decreases a local.
C39_IIncNeverDecreases ==
    [][ImmediateNext => ImmediatesUnsigned /\ NotDecreased]_vars

\* C39, amended: the immediates of iinc and bipush are decoded in 0..255, a
\* byte of 0xFF as 255, so that iinc does not decrease a local whose sum
\* with the delta is at most 2^31 - 1; a larger sum wraps around.
C39_UnsignedImmediates ==
    [][ImmediateNext =>
           /\ ImmediatesUnsigned
           /\ (CurrentOpcode = "IInc"
               /\ ImmediateByte(1) \in DOMAIN Top(frames).locals
               /\ Top(frames).locals[ImmediateByte(1)].v
                      > MaxI32 - ImmediateByte(2))
              \/ NotDecreased
      ]_vars

\* iinc 0 0xFF took local 0 from 3 to 258 and bipush 0xFF pushed 255.
C39_Witness ==
    /\ status = "running"
    /\ steps = 2
    /\ Code(program, 11) = IIncCode(0, 255)
    /\ Top(frames).locals = (0 :> VInt(258))
    /\ Top(frames).stack = <<VInt(255)>>

====
